---- MODULE Spec2Model ----
(***************************************************************************)
(* A model of the adapter registry of edge-mining-core:                    *)
(* edge_mining/application/services/adapter_service.py, class              *)
(* AdapterService.  The registry turns configuration entities into live    *)
(* adapter instances, memoises them in _instance_cache (all six adapter    *)
(* categories, keyed by entity id) and _service_cache (external services), *)
(* and offers invalidation operations on both caches.                      *)
(*                                                                         *)
(* The repositories and the factories are external collaborators: what a   *)
(* repository returns for an identifier and whether a factory succeeds are *)
(* inputs of each call, drawn from small sets.                             *)
(***************************************************************************)
EXTENDS Integers, Sequences, FiniteSets, TLC

VARIABLES
    instance_cache,   \* self._instance_cache : EntityId -> port instance or None
    service_cache,    \* self._service_cache  : EntityId -> external service
    serial,           \* identity the next constructed object gets
    lastCall,         \* the call that produced this state: arguments, what the
                      \* repositories and factories answered, and its outcome
    threads,          \* SpecThreads: each caller's position in its call and
                      \* its local variables
    issued,           \* SpecThreads: the number of calls issued so far
    controller        \* SpecPyASIC: the fields of a PyASICMinerController

vars == <<instance_cache, service_cache, serial, lastCall, threads, issued,
          controller>>

(***************************************************************************)
(* Bounds of the model.                                                    *)
(***************************************************************************)
MaxBuilds == 3    \* objects constructed in one behaviour
MaxBatch == 2     \* identifiers in one get_notifiers call
NumThreads == 2   \* concurrent callers (SpecThreads)
MaxCalls == 3     \* calls the concurrent callers issue in one behaviour
MaxThreadBuilds == 4  \* objects the concurrent callers construct (SpecThreads)

\* Spec drives one cache key: the identifier every category's entity and the
\* external service are stored under (the two caches are separate dicts).
Ids == {1}

\* An Optional[EntityId] that is unset (None).
NoId == 0

(***************************************************************************)
(* Values.                                                                 *)
(***************************************************************************)
\* Python's None, as a returned or cached value.
None == [kind |-> "None"]

\* A local variable that was never assigned: reading it raises
\* UnboundLocalError.
Unbound == [kind |-> "unbound"]

\* An exception that leaves the called method.
Raised(e) == [kind |-> "raise", exc |-> e]

\* What repository.get_by_id returns for an identifier it does not hold.
NoEntity == [exists |-> FALSE]

Categories == {"energy_monitor", "miner_controller", "notifier",
               "forecast_provider", "home_forecast_provider",
               "mining_performance_tracker"}

\* The capability port the instances of a category implement.
Port(c) ==
    CASE c = "energy_monitor" -> "EnergyMonitorPort"
      [] c = "miner_controller" -> "MinerControlPort"
      [] c = "notifier" -> "NotificationPort"
      [] c = "forecast_provider" -> "ForecastProviderPort"
      [] c = "home_forecast_provider" -> "HomeForecastProviderPort"
      [] c = "mining_performance_tracker" -> "MiningPerformanceTrackerPort"
      [] c = "external_service" -> "ExternalServicePort"

\* The adapter types each initializer has a construction branch for.
SupportedTypes(c) ==
    CASE c = "energy_monitor" -> {"DUMMY_SOLAR", "HOME_ASSISTANT_API"}
      [] c = "miner_controller" -> {"DUMMY", "GENERIC_SOCKET_HOME_ASSISTANT_API"}
      [] c = "notifier" -> {"DUMMY", "TELEGRAM"}
      [] c = "forecast_provider" -> {"DUMMY_SOLAR", "HOME_ASSISTANT_API"}
      [] c = "home_forecast_provider" -> {"DUMMY"}
      [] c = "mining_performance_tracker" -> {"DUMMY"}
      [] c = "external_service" -> {"HOME_ASSISTANT_API"}

\* Any adapter_type value that no branch of the initializer names.
OtherType == "OTHER"

\* The config payload is read by the registry only in the HOME_ASSISTANT_API
\* branches of the energy monitor and the forecast provider; elsewhere it is
\* handed to the factory unread, and one value stands for all.
ConfigChoices(c, t) ==
    IF c \in {"energy_monitor", "forecast_provider"} /\ t = "HOME_ASSISTANT_API"
    THEN BOOLEAN ELSE {TRUE}

\* The configuration entities a category's repository may return.
AdapterEntities(c) ==
    UNION {{[exists |-> TRUE, adapter_type |-> t, config |-> cf,
             external_service_id |-> s] :
              cf \in ConfigChoices(c, t), s \in {NoId} \cup Ids} :
           t \in SupportedTypes(c) \cup {OtherType}}

\* The external service entities the service repository may return.
ServiceEntities ==
    {[exists |-> TRUE, adapter_type |-> t] :
        t \in SupportedTypes("external_service") \cup {OtherType}}

\* What one factory invocation does: return an instance, raise, or return
\* an empty value.
FactoryOutcomes == {"ok", "raise", "none"}

\* dict helpers
Put(d, k, v) == [x \in DOMAIN d \cup {k} |-> IF x = k THEN v ELSE d[x]]
Del(d, k) == [x \in DOMAIN d \ {k} |-> d[x]]
EmptyDict == <<>>

\* The result of running one method: the value returned (or the exception
\* raised), both caches, the serial, and the factories invoked, in order.
Out(ret, ic, sc, ser, calls) ==
    [ret |-> ret, instance_cache |-> ic, service_cache |-> sc,
     serial |-> ser, calls |-> calls]

Truthy(v) == v.kind = "instance"

(***************************************************************************)
(* External services.                                                      *)
(***************************************************************************)
\* A factory whose instance is returned but not stored in the service cache.
create_external_service_unstored(ic, sc, ser, id, so) ==
    CASE so = "ok" ->
           Out([kind |-> "instance", port |-> "ExternalServicePort",
                serial |-> ser, id |-> id], ic, sc, ser + 1,
               <<"external_service">>)
      [] so = "none" -> Out(None, ic, sc, ser, <<"external_service">>)
      [] so = "raise" -> Out(None, ic, sc, ser, <<"external_service">>)

\* external_service_factory.create(config, logger), lines 118-121: the
\* returned value is cached and returned; an exception is caught (122-128).
create_external_service(ic, sc, ser, id, so) ==
    CASE so = "ok" ->
           LET instance_service == [kind |-> "instance",
                                    port |-> "ExternalServicePort",
                                    serial |-> ser, id |-> id]
           IN Out(instance_service, ic, Put(sc, id, instance_service),
                  ser + 1, <<"external_service">>)
      [] so = "none" ->
           Out(None, ic, Put(sc, id, None), ser, <<"external_service">>)
      [] so = "raise" ->
           Out(None, ic, sc, ser, <<"external_service">>)

\* An initializer that does not look into the service cache.
initialize_external_service_uncached(ic, sc, ser, id, external_service, so) ==
    IF external_service.adapter_type = "HOME_ASSISTANT_API"
    THEN CASE so = "ok" ->
                LET instance_service == [kind |-> "instance",
                                         port |-> "ExternalServicePort",
                                         serial |-> ser, id |-> id]
                IN Out(instance_service, ic, Put(sc, id, instance_service),
                       ser + 1, <<"external_service">>)
           [] so = "none" ->
                Out(None, ic, Put(sc, id, None), ser, <<"external_service">>)
           [] so = "raise" ->
                Out(None, ic, sc, ser, <<"external_service">>)
    ELSE Out(None, ic, sc, ser, <<>>)

\* An initializer that also looks for the identifier in the instance cache.
initialize_external_service_mixed(ic, sc, ser, id, external_service, so) ==
    IF id \in DOMAIN sc
    THEN Out(sc[id], ic, sc, ser, <<>>)
    ELSE IF id \in DOMAIN ic
         THEN Out(ic[id], ic, sc, ser, <<>>)
    ELSE IF external_service.adapter_type = "HOME_ASSISTANT_API"
         THEN create_external_service(ic, sc, ser, id, so)
         ELSE Out(None, ic, sc, ser, <<>>)

initialize_external_service(ic, sc, ser, id, external_service, so) ==
    IF id \in DOMAIN sc
    THEN Out(sc[id], ic, sc, ser, <<>>)
    ELSE IF external_service.adapter_type = "HOME_ASSISTANT_API"
         THEN create_external_service(ic, sc, ser, id, so)
         ELSE Out(None, ic, sc, ser, <<>>)

\* A getter that remembers an absent service as an empty cache entry.
get_external_service_negative(ic, sc, ser, external_service_id, external_service, so) ==
    IF ~external_service.exists
    THEN Out(None, ic, Put(sc, external_service_id, None), ser, <<>>)
    ELSE IF external_service_id \in DOMAIN sc
         THEN Out(sc[external_service_id], ic, sc, ser, <<>>)
    ELSE IF external_service.adapter_type = "HOME_ASSISTANT_API"
         THEN CASE so = "ok" ->
                     Out([kind |-> "instance", port |-> "ExternalServicePort",
                          serial |-> ser, id |-> external_service_id], ic,
                         Put(sc, external_service_id,
                             [kind |-> "instance", port |-> "ExternalServicePort",
                              serial |-> ser, id |-> external_service_id]),
                         ser + 1, <<"external_service">>)
                [] so = "none" ->
                     Out(None, ic, Put(sc, external_service_id, None), ser,
                         <<"external_service">>)
                [] so = "raise" ->
                     Out(None, ic, sc, ser, <<"external_service">>)
    ELSE Out(None, ic, sc, ser, <<>>)

get_external_service(ic, sc, ser, external_service_id, external_service, so) ==
    IF ~external_service.exists
    THEN Out(None, ic, sc, ser, <<>>)
    ELSE initialize_external_service(ic, sc, ser, external_service_id,
                                     external_service, so)

(***************************************************************************)
(* Adapter initializers.  Each takes the caches and the serial, the        *)
(* entity's identifier and the entity read from the repository, what the   *)
(* service repository returns for the entity's external_service_id (es),   *)
(* and the outcomes of the service factory (so) and adapter factory (fo).  *)
(***************************************************************************)
\* A cache-hit block without the isinstance check.
check_cached_unguarded(cached_instance, port) ==
    IF ~Truthy(cached_instance) THEN None
    ELSE cached_instance

\* The cache-hit block of every initializer: a falsy cached value and a
\* cached value of another port both make the initializer return None.
check_cached(cached_instance, port) ==
    IF ~Truthy(cached_instance) THEN None
    ELSE IF cached_instance.port # port THEN None
    ELSE cached_instance

\* A resolution that hands None to the construction where the code raises.
resolve_external_service_lenient(ic, sc, ser, external_service_id, es, so, initial) ==
    IF external_service_id # NoId
    THEN LET r == get_external_service(ic, sc, ser, external_service_id, es, so)
         IN IF ~Truthy(r.ret) THEN [r EXCEPT !.ret = None]
            ELSE r
    ELSE Out(initial, ic, sc, ser, <<>>)

\* "if entity.external_service_id: external_service =
\* self.get_external_service(...); if not external_service: raise ValueError".
\* ret is the value of the local variable external_service afterwards
\* (initial when the entity names no service), or the ValueError, which is
\* raised outside the try block and leaves the initializer.
resolve_external_service(ic, sc, ser, external_service_id, es, so, initial) ==
    IF external_service_id # NoId
    THEN LET r == get_external_service(ic, sc, ser, external_service_id, es, so)
         IN IF ~Truthy(r.ret) THEN [r EXCEPT !.ret = Raised("ValueError")]
            ELSE r
    ELSE Out(initial, ic, sc, ser, <<>>)

\* An exception handler that also empties the service cache.
caught_rollback(dep) == [dep EXCEPT !.ret = None, !.service_cache = EmptyDict]

\* An exception raised inside the try block: logged, None is returned.
caught(dep) == [dep EXCEPT !.ret = None]

\* A construction that invokes the adapter factory a second time when the
\* first invocation raises.
build_adapter_retrying(c, dep, id, entity, passed, fo) ==
    IF passed = Unbound THEN caught(dep)
    ELSE CASE fo = "ok" ->
                LET instance == [kind |-> "instance", port |-> Port(c),
                                 serial |-> dep.serial,
                                 external_service |-> passed]
                IN Out(instance, Put(dep.instance_cache, id, instance),
                       dep.service_cache, dep.serial + 1,
                       Append(dep.calls, c))
           [] fo = "none" ->
                Out(None, Put(dep.instance_cache, id, None),
                    dep.service_cache, dep.serial, Append(dep.calls, c))
           [] fo = "raise" ->
                Out(None, dep.instance_cache, dep.service_cache, dep.serial,
                    Append(Append(dep.calls, c), c))

\* "instance = <factory>.create(config, logger, external_service) /
\* <Adapter>(...); self._instance_cache[id] = instance; return instance".
\* passed is the external service handed to the factory (None for the
\* adapters constructed without one); reading an unbound external_service
\* raises UnboundLocalError before the factory is invoked.
build_adapter(c, dep, id, entity, passed, fo) ==
    IF passed = Unbound THEN caught(dep)
    ELSE CASE fo = "ok" ->
                LET instance == [kind |-> "instance", port |-> Port(c),
                                 serial |-> dep.serial,
                                 external_service |-> passed]
                IN Out(instance, Put(dep.instance_cache, id, instance),
                       dep.service_cache, dep.serial + 1,
                       Append(dep.calls, c))
           [] fo = "none" ->
                Out(None, Put(dep.instance_cache, id, None),
                    dep.service_cache, dep.serial, Append(dep.calls, c))
           [] fo = "raise" ->
                Out(None, dep.instance_cache, dep.service_cache, dep.serial,
                    Append(dep.calls, c))

initialize_energy_monitor_adapter(ic, sc, ser, id, energy_source, energy_monitor, es, so, fo) ==
    IF id \in DOMAIN ic
    THEN Out(check_cached(ic[id], "EnergyMonitorPort"), ic, sc, ser, <<>>)
    ELSE LET dep == resolve_external_service(ic, sc, ser,
                        energy_monitor.external_service_id, es, so, Unbound)
         IN IF dep.ret.kind = "raise" THEN dep
            ELSE IF energy_monitor.adapter_type = "DUMMY_SOLAR"
                 THEN build_adapter("energy_monitor", dep, id, energy_monitor, dep.ret, fo)
            ELSE IF energy_monitor.adapter_type = "HOME_ASSISTANT_API"
                 THEN IF ~energy_monitor.config THEN caught(dep)
                      ELSE build_adapter("energy_monitor", dep, id, energy_monitor, dep.ret, fo)
            ELSE caught(dep)

initialize_miner_controller_adapter(ic, sc, ser, id, miner, miner_controller, es, so, fo) ==
    IF id \in DOMAIN ic
    THEN Out(check_cached(ic[id], "MinerControlPort"), ic, sc, ser, <<>>)
    ELSE LET dep == resolve_external_service(ic, sc, ser,
                        miner_controller.external_service_id, es, so, None)
         IN IF dep.ret.kind = "raise" THEN dep
            ELSE IF miner_controller.adapter_type = "DUMMY"
                 THEN IF ~miner.limits THEN caught(dep)
                      ELSE build_adapter("miner_controller", dep, id, miner_controller, None, fo)
            ELSE IF miner_controller.adapter_type = "GENERIC_SOCKET_HOME_ASSISTANT_API"
                 THEN build_adapter("miner_controller", dep, id, miner_controller, dep.ret, fo)
            ELSE caught(dep)

\* An initializer that constructs the notifier without looking into the
\* instance cache.
initialize_notifier_adapter_rebuilding(ic, sc, ser, id, notifier, es, so, fo) ==
    LET dep == resolve_external_service(ic, sc, ser,
                   notifier.external_service_id, es, so, None)
    IN IF dep.ret.kind = "raise" THEN dep
       ELSE IF notifier.adapter_type = "DUMMY"
            THEN build_adapter("notifier", dep, id, notifier, None, fo)
       ELSE IF notifier.adapter_type = "TELEGRAM"
            THEN build_adapter("notifier", dep, id, notifier, dep.ret, fo)
       ELSE caught(dep)

initialize_notifier_adapter(ic, sc, ser, id, notifier, es, so, fo) ==
    IF id \in DOMAIN ic
    THEN Out(check_cached(ic[id], "NotificationPort"), ic, sc, ser, <<>>)
    ELSE LET dep == resolve_external_service(ic, sc, ser,
                        notifier.external_service_id, es, so, None)
         IN IF dep.ret.kind = "raise" THEN dep
            ELSE IF notifier.adapter_type = "DUMMY"
                 THEN build_adapter("notifier", dep, id, notifier, None, fo)
            ELSE IF notifier.adapter_type = "TELEGRAM"
                 THEN build_adapter("notifier", dep, id, notifier, dep.ret, fo)
            ELSE caught(dep)

initialize_forecast_provider_adapter(ic, sc, ser, id, energy_source, forecast_provider, es, so, fo) ==
    IF id \in DOMAIN ic
    THEN Out(check_cached(ic[id], "ForecastProviderPort"), ic, sc, ser, <<>>)
    ELSE LET dep == resolve_external_service(ic, sc, ser,
                        forecast_provider.external_service_id, es, so, Unbound)
         IN IF dep.ret.kind = "raise" THEN dep
            ELSE IF forecast_provider.adapter_type = "DUMMY_SOLAR"
                 THEN build_adapter("forecast_provider", dep, id, forecast_provider, dep.ret, fo)
            ELSE IF forecast_provider.adapter_type = "HOME_ASSISTANT_API"
                 THEN IF ~forecast_provider.config THEN caught(dep)
                      ELSE build_adapter("forecast_provider", dep, id, forecast_provider, dep.ret, fo)
            ELSE caught(dep)

initialize_home_forecast_provider_adapter(ic, sc, ser, id, home_forecast_provider, fo) ==
    IF id \in DOMAIN ic
    THEN Out(check_cached(ic[id], "HomeForecastProviderPort"), ic, sc, ser, <<>>)
    ELSE LET dep == Out(None, ic, sc, ser, <<>>)
         IN IF home_forecast_provider.adapter_type = "DUMMY"
            THEN build_adapter("home_forecast_provider", dep, id, home_forecast_provider, None, fo)
            ELSE caught(dep)

initialize_mining_performance_tracker_adapter(ic, sc, ser, id, tracker, es, so, fo) ==
    IF id \in DOMAIN ic
    THEN Out(check_cached(ic[id], "MiningPerformanceTrackerPort"), ic, sc, ser, <<>>)
    ELSE LET dep == resolve_external_service(ic, sc, ser,
                        tracker.external_service_id, es, so, Unbound)
         IN IF dep.ret.kind = "raise" THEN dep
            ELSE IF tracker.adapter_type = "DUMMY"
                 THEN build_adapter("mining_performance_tracker", dep, id, tracker, None, fo)
            ELSE caught(dep)

(***************************************************************************)
(* The public getters.                                                     *)
(***************************************************************************)
get_energy_monitor(ic, sc, ser, energy_source, energy_monitor, es, so, fo) ==
    IF energy_source.energy_monitor_id = NoId THEN Out(None, ic, sc, ser, <<>>)
    ELSE IF ~energy_monitor.exists THEN Out(None, ic, sc, ser, <<>>)
    ELSE initialize_energy_monitor_adapter(ic, sc, ser,
             energy_source.energy_monitor_id, energy_source, energy_monitor,
             es, so, fo)

get_miner_controller(ic, sc, ser, miner, miner_controller, es, so, fo) ==
    IF miner.controller_id = NoId THEN Out(None, ic, sc, ser, <<>>)
    ELSE IF ~miner_controller.exists THEN Out(None, ic, sc, ser, <<>>)
    ELSE initialize_miner_controller_adapter(ic, sc, ser, miner.controller_id,
             miner, miner_controller, es, so, fo)

\* A getter that answers from the instance cache before it asks the
\* repository.
get_notifier_cache_first(ic, sc, ser, notifier_id, notifier, es, so, fo) ==
    IF notifier_id \in DOMAIN ic
    THEN Out(check_cached(ic[notifier_id], "NotificationPort"), ic, sc, ser, <<>>)
    ELSE IF ~notifier.exists THEN Out(None, ic, sc, ser, <<>>)
    ELSE initialize_notifier_adapter(ic, sc, ser, notifier_id, notifier,
                                     es, so, fo)

get_notifier(ic, sc, ser, notifier_id, notifier, es, so, fo) ==
    IF ~notifier.exists THEN Out(None, ic, sc, ser, <<>>)
    ELSE initialize_notifier_adapter(ic, sc, ser, notifier_id, notifier,
                                     es, so, fo)

get_forecast_provider(ic, sc, ser, energy_source, forecast_provider, es, so, fo) ==
    IF energy_source.forecast_provider_id = NoId THEN Out(None, ic, sc, ser, <<>>)
    ELSE IF ~forecast_provider.exists THEN Out(None, ic, sc, ser, <<>>)
    ELSE initialize_forecast_provider_adapter(ic, sc, ser,
             energy_source.forecast_provider_id, energy_source,
             forecast_provider, es, so, fo)

get_home_load_forecast_provider(ic, sc, ser, home_forecast_provider_id, home_forecast_provider, fo) ==
    IF ~home_forecast_provider.exists THEN Out(None, ic, sc, ser, <<>>)
    ELSE initialize_home_forecast_provider_adapter(ic, sc, ser,
             home_forecast_provider_id, home_forecast_provider, fo)

get_mining_performance_tracker(ic, sc, ser, tracker_id, tracker, es, so, fo) ==
    IF ~tracker.exists THEN Out(None, ic, sc, ser, <<>>)
    ELSE initialize_mining_performance_tracker_adapter(ic, sc, ser,
             tracker_id, tracker, es, so, fo)

\* A rule engine getter that hands out one engine built once.
get_rule_engine_singleton(ic, sc, ser, fo) ==
    IF fo = "ok"
    THEN Out([kind |-> "instance", port |-> "RuleEngine", serial |-> 0,
              external_service |-> None], ic, sc, ser, <<"rule_engine">>)
    ELSE Out(None, ic, sc, ser, <<"rule_engine">>)

\* "engine = RuleEngineFactory().create(...); return engine", any exception
\* caught and answered with None.  Nothing is read from or written to the
\* caches.
get_rule_engine(ic, sc, ser, fo) ==
    IF fo = "ok"
    THEN Out([kind |-> "instance", port |-> "RuleEngine", serial |-> ser,
              external_service |-> None], ic, sc, ser + 1, <<"rule_engine">>)
    ELSE Out(None, ic, sc, ser, <<"rule_engine">>)

(***************************************************************************)
(* The batch getters.  notifier_repo and service_repo are what the         *)
(* repositories hold during the call (identifier -> entity); sos[i] and    *)
(* fos[i] are the outcomes of the factories invoked for the i-th item.     *)
(***************************************************************************)
\* repository.get_by_id
Lookup(repo, id) == IF id \in DOMAIN repo THEN repo[id] ELSE NoEntity

\* What the service repository returns for the service an entity names.
ServiceOf(service_repo, entity) ==
    IF entity.external_service_id = NoId THEN NoEntity
    ELSE Lookup(service_repo, entity.external_service_id)

\* A returned list of instances.
ListOf(items) == [kind |-> "list", items |-> items]

\* "instance = self._initialize_notifier_adapter(notifier); if instance:
\* notifier_instances.append(instance)": acc is the loop's state before the
\* item; an exception of the initializer leaves the loop and the getter.
collect_notifier(acc, notifier_id, notifier, service_repo, so, fo) ==
    LET r == initialize_notifier_adapter(acc.instance_cache, acc.service_cache,
                 acc.serial, notifier_id, notifier,
                 ServiceOf(service_repo, notifier), so, fo)
        calls == acc.calls \o r.calls
    IN IF r.ret.kind = "raise"
       THEN Out(r.ret, r.instance_cache, r.service_cache, r.serial, calls)
       ELSE Out(IF Truthy(r.ret) THEN ListOf(Append(acc.ret.items, r.ret))
                ELSE acc.ret,
                r.instance_cache, r.service_cache, r.serial, calls)

RECURSIVE notifiers_loop(_, _, _, _, _, _, _)
\* The for loop of get_notifiers from its i-th item on.
notifiers_loop(acc, notifier_ids, i, notifier_repo, service_repo, sos, fos) ==
    IF i > Len(notifier_ids) \/ acc.ret.kind = "raise" THEN acc
    ELSE LET notifier == Lookup(notifier_repo, notifier_ids[i])
         IN IF ~notifier.exists
            THEN notifiers_loop(acc, notifier_ids, i + 1, notifier_repo,
                                service_repo, sos, fos)
            ELSE notifiers_loop(
                     collect_notifier(acc, notifier_ids[i], notifier,
                                      service_repo, sos[i], fos[i]),
                     notifier_ids, i + 1, notifier_repo, service_repo, sos, fos)

get_notifiers(ic, sc, ser, notifier_ids, notifier_repo, service_repo, sos, fos) ==
    notifiers_loop(Out(ListOf(<<>>), ic, sc, ser, <<>>), notifier_ids, 1,
                   notifier_repo, service_repo, sos, fos)

RECURSIVE all_notifiers_loop(_, _, _, _, _, _, _)
\* The for loop of get_all_notifiers from its i-th item on; notifiers is
\* the list notifier_repo.get_all() returned, as identifiers.
all_notifiers_loop(acc, notifiers, i, notifier_repo, service_repo, sos, fos) ==
    IF i > Len(notifiers) \/ acc.ret.kind = "raise" THEN acc
    ELSE all_notifiers_loop(
             collect_notifier(acc, notifiers[i], notifier_repo[notifiers[i]],
                              service_repo, sos[i], fos[i]),
             notifiers, i + 1, notifier_repo, service_repo, sos, fos)

\* A getter that reports no notifier and constructs none.
get_all_notifiers_none(ic, sc, ser, notifiers, notifier_repo, service_repo, sos, fos) ==
    Out(ListOf(<<>>), ic, sc, ser, <<>>)

get_all_notifiers(ic, sc, ser, notifiers, notifier_repo, service_repo, sos, fos) ==
    IF Len(notifiers) = 0 THEN Out(ListOf(<<>>), ic, sc, ser, <<>>)
    ELSE all_notifiers_loop(Out(ListOf(<<>>), ic, sc, ser, <<>>), notifiers, 1,
                            notifier_repo, service_repo, sos, fos)

(***************************************************************************)
(* Cache invalidation.                                                     *)
(***************************************************************************)
\* A clear that leaves the cache as it is.
clear_all_adapters_kept(ic) == ic

clear_all_adapters(ic) == EmptyDict

\* A removal that leaves the entry in the cache.
remove_adapter_kept(ic, entity_id) == ic

\* A removal that drops every entry.
remove_adapter_all(ic, entity_id) == EmptyDict

remove_adapter(ic, entity_id) ==
    IF entity_id \in DOMAIN ic THEN Del(ic, entity_id) ELSE ic

\* A clear that leaves an empty entry for every service identifier.
clear_all_services_refilled(sc) == [k \in Ids |-> None]

clear_all_services(sc) == EmptyDict

remove_service(sc, external_service_id) ==
    IF external_service_id \in DOMAIN sc THEN Del(sc, external_service_id)
    ELSE sc

(***************************************************************************)
(* The inputs of a getter call: the identifier asked for (for an energy    *)
(* source or a miner, the link it holds), whether the Miner carries its    *)
(* power and hash rate maxima (limits), what the category's repository     *)
(* returns (entity), what the service repository returns for the entity's  *)
(* external_service_id (es), and the outcomes of the service factory (so)  *)
(* and of the adapter factory (fo).                                        *)
(***************************************************************************)
Getters == Categories \cup {"external_service"}

Input(id, limits, entity, es, so, fo) ==
    [id |-> id, limits |-> limits, entity |-> entity, es |-> es, so |-> so,
     fo |-> fo]

\* The getter of category c, run on caches ic, sc and serial ser.
Run(c, ic, sc, ser, in) ==
    CASE c = "energy_monitor" ->
           get_energy_monitor(ic, sc, ser, [energy_monitor_id |-> in.id],
               in.entity, in.es, in.so, in.fo)
      [] c = "miner_controller" ->
           get_miner_controller(ic, sc, ser,
               [controller_id |-> in.id, limits |-> in.limits],
               in.entity, in.es, in.so, in.fo)
      [] c = "notifier" ->
           get_notifier(ic, sc, ser, in.id, in.entity, in.es, in.so, in.fo)
      [] c = "forecast_provider" ->
           get_forecast_provider(ic, sc, ser, [forecast_provider_id |-> in.id],
               in.entity, in.es, in.so, in.fo)
      [] c = "home_forecast_provider" ->
           get_home_load_forecast_provider(ic, sc, ser, in.id, in.entity, in.fo)
      [] c = "mining_performance_tracker" ->
           get_mining_performance_tracker(ic, sc, ser, in.id, in.entity,
               in.es, in.so, in.fo)
      [] c = "external_service" ->
           get_external_service(ic, sc, ser, in.id, in.entity, in.fo)

GetterName(c) ==
    CASE c = "energy_monitor" -> "get_energy_monitor"
      [] c = "miner_controller" -> "get_miner_controller"
      [] c = "notifier" -> "get_notifier"
      [] c = "forecast_provider" -> "get_forecast_provider"
      [] c = "home_forecast_provider" -> "get_home_load_forecast_provider"
      [] c = "mining_performance_tracker" -> "get_mining_performance_tracker"
      [] c = "external_service" -> "get_external_service"

Range(q) == {q[i] : i \in DOMAIN q}

\* The adapters built by a factory's create(), which may return an empty
\* value; the others are built by calling the adapter class.
UsesFactory(c, t) ==
    \/ c \in {"energy_monitor", "forecast_provider", "external_service"}
    \/ c = "miner_controller" /\ t = "GENERIC_SOCKET_HOME_ASSISTANT_API"
    \/ c = "notifier" /\ t = "TELEGRAM"

\* The ways an energy source or a miner may name its adapter entity.
LinkChoices(c, I) ==
    IF c \in {"energy_monitor", "forecast_provider", "miner_controller"}
    THEN {NoId} \cup I ELSE I

\* What the category's repository may return for an identifier: anything.
EntityChoices(c, id) ==
    IF id = NoId THEN {NoEntity}
    ELSE IF c = "external_service" THEN ServiceEntities \cup {NoEntity}
    ELSE AdapterEntities(c) \cup {NoEntity}

\* The repository content of the deployment (SpecDeployed, SpecBatch): an
\* entity of adapter type t that names external service s.
Entity(t, s) ==
    [exists |-> TRUE, adapter_type |-> t, config |-> TRUE,
     external_service_id |-> s]

\* The notifiers N1 (dummy), N2 (a type no branch handles), N3 and N4
\* (Telegram through external service ES1), in repository order, and the
\* miner controller M5 (generic socket through ES1).
NotifierRepo ==
    (1 :> Entity("DUMMY", NoId)) @@ (2 :> Entity(OtherType, NoId))
    @@ (3 :> Entity("TELEGRAM", 1)) @@ (4 :> Entity("TELEGRAM", 1))

NotifierOrder == <<1, 2, 3, 4>>

MinerControllerRepo ==
    (5 :> Entity("GENERIC_SOCKET_HOME_ASSISTANT_API", 1))

DeployedIds == DOMAIN NotifierRepo \cup DOMAIN MinerControllerRepo
DeployedGetters == {"notifier", "miner_controller", "external_service"}
DeployedCategories == DeployedGetters \ {"external_service"}

Deployed(c, id) ==
    CASE c = "notifier" -> {Lookup(NotifierRepo, id)}
      [] c = "miner_controller" -> {Lookup(MinerControllerRepo, id)}
      [] OTHER -> EntityChoices(c, id)

\* What the repositories return for an identifier: anything ("any"), or the
\* content of the deployment ("deployed").
Entities(repos, c, id) ==
    IF repos = "deployed" THEN Deployed(c, id) ELSE EntityChoices(c, id)

\* An input the call never reads is fixed to one value, so that it does not
\* multiply the calls: the limits matter to the DUMMY miner controller, the
\* service entity to an initializer that resolves one, a factory outcome to
\* a call that invokes the factory.
LimitChoices(c, ic, id, entity) ==
    IF c = "miner_controller" /\ entity.exists /\ id \notin DOMAIN ic
       /\ entity.adapter_type = "DUMMY"
    THEN BOOLEAN ELSE {TRUE}

EsChoices(c, ic, id, entity) ==
    IF /\ c \notin {"home_forecast_provider", "external_service"}
       /\ entity.exists
       /\ id \notin DOMAIN ic
       /\ entity.external_service_id # NoId
    THEN ServiceEntities \cup {NoEntity} ELSE {NoEntity}

SoChoices(c, ic, sc, ser, id, limits, entity, es) ==
    IF c # "external_service"
       /\ "external_service" \in
            Range(Run(c, ic, sc, ser, Input(id, limits, entity, es, "ok", "ok")).calls)
    THEN FactoryOutcomes ELSE {"ok"}

FoChoices(c, ic, sc, ser, id, limits, entity, es, so) ==
    IF c \in Range(Run(c, ic, sc, ser, Input(id, limits, entity, es, so, "ok")).calls)
    THEN IF UsesFactory(c, entity.adapter_type) THEN FactoryOutcomes
         ELSE {"ok", "raise"}
    ELSE {"ok"}

\* The calls of getter c that differ, on caches ic, sc, for identifiers I,
\* when the repository returns for id an entity of Entities(repos, c, id).
Inputs(c, ic, sc, ser, I, repos) ==
    UNION {UNION {UNION {UNION {UNION {
        {Input(id, limits, entity, es, so, fo) :
            fo \in FoChoices(c, ic, sc, ser, id, limits, entity, es, so)} :
        so \in SoChoices(c, ic, sc, ser, id, limits, entity, es)} :
        es \in EsChoices(c, ic, id, entity)} :
        limits \in LimitChoices(c, ic, id, entity)} :
        entity \in Entities(repos, c, id)} :
        id \in LinkChoices(c, I)}

(***************************************************************************)
(* The state machine: every action is one call of a public method.         *)
(***************************************************************************)
\* The record of a call: the method, the category, the inputs (ids is the
\* list a batch getter works through), the value returned or exception
\* raised, the factories invoked in order, and the cache entries the call
\* dropped.
Call(op, c, in, ret, calls, dropped) ==
    [op |-> op, cat |-> c, id |-> in.id, ids |-> <<>>, limits |-> in.limits,
     entity |-> in.entity, es |-> in.es, so |-> in.so, fo |-> in.fo,
     ret |-> ret, calls |-> calls, dropped |-> dropped]

NoInput(id) == Input(id, TRUE, NoEntity, NoEntity, "ok", "ok")

\* PyASICMinerController.__init__: the fields the methods read.  password
\* is "None" or a password; _miner starts as None.
PyASICMinerController(password) == [password |-> password, miner |-> "None"]

\* The callers of SpecThreads, and a caller that is in no call.
Threads == 1..NumThreads
Idle ==
    [pc |-> "idle", op |-> "none", cat |-> "none", id |-> NoId,
     entity |-> NoEntity, es |-> NoEntity, external_service |-> None,
     instance |-> None, ret |-> None, calls |-> <<>>, fresh |-> FALSE,
     overlaps |-> {}, disturbed |-> FALSE, cold |-> FALSE, stale |-> "no",
     late |-> {}]

\* The call without what the collaborators answered.
Brief(call) ==
    [call EXCEPT !.limits = TRUE, !.entity = NoEntity, !.es = NoEntity,
                 !.so = "ok", !.fo = "ok"]

Init ==
    /\ instance_cache = EmptyDict
    /\ service_cache = EmptyDict
    /\ serial = 1
    /\ lastCall = Call("init", "none", NoInput(NoId), None, <<>>, EmptyDict)
    /\ threads = [t \in Threads |-> Idle]
    /\ issued = 0
    /\ controller = PyASICMinerController("None")

\* A call of getter c.  On the deployment lastCall keeps the call without
\* the collaborators' answers.
Get(c, I, repos) ==
    \E in \in Inputs(c, instance_cache, service_cache, serial, I, repos) :
        LET r == Run(c, instance_cache, service_cache, serial, in)
        IN /\ r.serial <= MaxBuilds + 1
           /\ instance_cache' = r.instance_cache
           /\ service_cache' = r.service_cache
           /\ serial' = r.serial
           /\ lastCall' =
                 LET call == Call(GetterName(c), c, in, r.ret, r.calls, EmptyDict)
                 IN IF repos = "deployed" THEN Brief(call) ELSE call
           /\ UNCHANGED <<threads, issued, controller>>

GetEnergyMonitor == Get("energy_monitor", Ids, "any")
GetMinerController == Get("miner_controller", Ids, "any")
GetNotifier == Get("notifier", Ids, "any")
GetForecastProvider == Get("forecast_provider", Ids, "any")
GetHomeLoadForecastProvider == Get("home_forecast_provider", Ids, "any")
GetMiningPerformanceTracker == Get("mining_performance_tracker", Ids, "any")
GetExternalService == Get("external_service", Ids, "any")

GetRuleEngine ==
    \E fo \in FactoryOutcomes :
        LET r == get_rule_engine(instance_cache, service_cache, serial, fo)
        IN /\ r.serial <= MaxBuilds + 1
           /\ instance_cache' = r.instance_cache
           /\ service_cache' = r.service_cache
           /\ serial' = r.serial
           /\ lastCall' = Call("get_rule_engine", "rule_engine",
                               [NoInput(NoId) EXCEPT !.fo = fo], r.ret, r.calls,
                               EmptyDict)
           /\ UNCHANGED <<threads, issued, controller>>

\* The entries of d that are not in e any more.
Dropped(d, e) == [k \in DOMAIN d \ DOMAIN e |-> d[k]]

ClearAllAdapters ==
    /\ instance_cache' = clear_all_adapters(instance_cache)
    /\ lastCall' = Call("clear_all_adapters", "adapter", NoInput(NoId), None,
                        <<>>, Dropped(instance_cache, instance_cache'))
    /\ UNCHANGED <<service_cache, serial, threads, issued, controller>>

RemoveAdapter(I) ==
    \E entity_id \in I :
        /\ instance_cache' = remove_adapter(instance_cache, entity_id)
        /\ lastCall' = Call("remove_adapter", "adapter", NoInput(entity_id),
                            None, <<>>, Dropped(instance_cache, instance_cache'))
        /\ UNCHANGED <<service_cache, serial, threads, issued, controller>>

ClearAllServices ==
    /\ service_cache' = clear_all_services(service_cache)
    /\ lastCall' = Call("clear_all_services", "external_service",
                        NoInput(NoId), None, <<>>,
                        Dropped(service_cache, service_cache'))
    /\ UNCHANGED <<instance_cache, serial, threads, issued, controller>>

RemoveService(I) ==
    \E external_service_id \in I :
        /\ service_cache' = remove_service(service_cache, external_service_id)
        /\ lastCall' = Call("remove_service", "external_service",
                            NoInput(external_service_id), None, <<>>,
                            Dropped(service_cache, service_cache'))
        /\ UNCHANGED <<instance_cache, serial, threads, issued, controller>>

Next ==
    \/ GetEnergyMonitor
    \/ GetMinerController
    \/ GetNotifier
    \/ GetForecastProvider
    \/ GetHomeLoadForecastProvider
    \/ GetMiningPerformanceTracker
    \/ GetExternalService
    \/ GetRuleEngine
    \/ ClearAllAdapters
    \/ RemoveAdapter(Ids)
    \/ ClearAllServices
    \/ RemoveService(Ids)

Spec == Init /\ [][Next]_vars

(***************************************************************************)
(* A deployment: the same registry over the repositories NotifierRepo and  *)
(* MinerControllerRepo, with several identifiers, where the batch getters  *)
(* have lists to work through.  The service repository's answer and the    *)
(* factory outcomes stay inputs of each call.                              *)
(***************************************************************************)
\* The notifier identifier lists of a batch call.
Lists == UNION {[1..n -> DeployedIds] : n \in 0..MaxBatch}

\* The service repository contents that differ for a batch over ids: it is
\* read when an item that is not cached names a service.
ServiceRepoChoices(ic, ids) ==
    IF \E i \in DOMAIN ids :
          /\ Lookup(NotifierRepo, ids[i]).exists
          /\ ids[i] \notin DOMAIN ic
          /\ Lookup(NotifierRepo, ids[i]).external_service_id # NoId
    THEN [Ids -> ServiceEntities \cup {NoEntity}]
    ELSE {[s \in Ids |-> NoEntity]}

Quiet(n) == [sos |-> [k \in 1..n |-> "ok"], fos |-> [k \in 1..n |-> "ok"]]

RECURSIVE BatchOutcomes(_, _, _, _, _, _)
\* The factory outcomes that differ for the items of ids from the i-th on.
BatchOutcomes(ic, sc, ser, ids, i, service_repo) ==
    IF i > Len(ids) THEN {Quiet(0)}
    ELSE LET notifier == Lookup(NotifierRepo, ids[i])
             es == IF notifier.exists THEN ServiceOf(service_repo, notifier)
                   ELSE NoEntity
         IN UNION {UNION {
              LET r == get_notifier(ic, sc, ser, ids[i], notifier, es, so, fo)
                  tails == IF r.ret.kind = "raise" THEN {Quiet(Len(ids) - i)}
                           ELSE BatchOutcomes(r.instance_cache, r.service_cache,
                                    r.serial, ids, i + 1, service_repo)
              IN {[sos |-> <<so>> \o t.sos, fos |-> <<fo>> \o t.fos] :
                     t \in tails} :
              fo \in FoChoices("notifier", ic, sc, ser, ids[i], TRUE, notifier, es, so)} :
              so \in SoChoices("notifier", ic, sc, ser, ids[i], TRUE, notifier, es)}

\* The batch calls that differ in this state: the list, the service
\* repository and the factory outcomes.
BatchInputs(ic, sc, ser, L) ==
    UNION {UNION {
        {[ids |-> ids, service_repo |-> service_repo, sos |-> o.sos, fos |-> o.fos] :
            o \in BatchOutcomes(ic, sc, ser, ids, 1, service_repo)} :
        service_repo \in ServiceRepoChoices(ic, ids)} :
        ids \in L}

RunBatch(op, ic, sc, ser, b) ==
    IF op = "get_notifiers"
    THEN get_notifiers(ic, sc, ser, b.ids, NotifierRepo, b.service_repo,
                       b.sos, b.fos)
    ELSE get_all_notifiers(ic, sc, ser, b.ids, NotifierRepo, b.service_repo,
                           b.sos, b.fos)

Batch(op, L) ==
    \E b \in BatchInputs(instance_cache, service_cache, serial, L) :
        LET r == RunBatch(op, instance_cache, service_cache, serial, b)
        IN /\ r.serial <= MaxBuilds + 1
           /\ instance_cache' = r.instance_cache
           /\ service_cache' = r.service_cache
           /\ serial' = r.serial
           /\ lastCall' = Call(op, "notifier", NoInput(NoId), r.ret, <<>>,
                               EmptyDict)
           /\ UNCHANGED <<threads, issued, controller>>

GetNotifiers == Batch("get_notifiers", Lists)
GetAllNotifiers == Batch("get_all_notifiers", {NotifierOrder})

DeployedGetNotifier == Get("notifier", DeployedIds, "deployed")
DeployedGetMinerController ==
    Get("miner_controller", DeployedIds, "deployed")
DeployedGetExternalService == Get("external_service", Ids, "deployed")

\* The single-entity getters and the invalidations on the deployment.
NextDeployed ==
    \/ DeployedGetNotifier
    \/ DeployedGetMinerController
    \/ DeployedGetExternalService
    \/ ClearAllAdapters
    \/ RemoveAdapter(DeployedIds)
    \/ ClearAllServices
    \/ RemoveService(Ids)

SpecDeployed == Init /\ [][NextDeployed]_vars

\* The batch getters and the invalidations on the deployment.
NextBatch ==
    \/ GetNotifiers
    \/ GetAllNotifiers
    \/ ClearAllAdapters
    \/ RemoveAdapter(DeployedIds)
    \/ ClearAllServices
    \/ RemoveService(Ids)

SpecBatch == Init /\ [][NextBatch]_vars

(***************************************************************************)
(* Concurrent callers.  The registry takes no lock, so the statements of   *)
(* calls made from several threads interleave: each action below is one    *)
(* cache access, repository lookup or factory invocation of one caller.    *)
(* The callers work on the deployment; its service repository holds ES1.   *)
(***************************************************************************)
ServiceRepo == (1 :> [exists |-> TRUE, adapter_type |-> "HOME_ASSISTANT_API"])

RepoOf(c) == IF c = "notifier" THEN NotifierRepo ELSE MinerControllerRepo

\* The calls a caller may issue.
ThreadCalls ==
    {[op |-> "get", cat |-> c, id |-> id] :
        c \in DeployedCategories, id \in DeployedIds}
    \cup {[op |-> "remove_adapter", cat |-> "adapter", id |-> id] :
            id \in DeployedIds}
    \cup {[op |-> "clear_all_adapters", cat |-> "adapter", id |-> NoId]}

FirstPc(op) ==
    CASE op = "get" -> "lookup"
      [] op = "remove_adapter" -> "rm_check"
      [] op = "clear_all_adapters" -> "clear"

InFlight(t) == threads[t].pc \notin {"idle", "done"}

\* Caller t moves on / returns (or raises) ret.
Goto(t, pc) == [threads EXCEPT ![t].pc = pc]
Finish(t, ret) == [threads EXCEPT ![t].pc = "done", ![t].ret = ret]

\* The entity of a configuration is edited in its repository and then the
\* adapter is invalidated: the edit is taken to happen as the invalidating
\* call is issued.  A getter call that has read the entity by then holds the
\* entity as it was before the edit: its stale mark is "pending" while the
\* invalidating call runs and "settled" once that call has returned.
Covers(call, u) ==
    /\ threads[u].op = "get"
    /\ call.op = "clear_all_adapters"
       \/ (call.op = "remove_adapter" /\ call.id = threads[u].id)

HoldsEntity(u) == InFlight(u) /\ threads[u].op = "get" /\ threads[u].pc # "lookup"

\* th, with the stale marks the returning invalidation of caller t settles.
Settle(th, t) ==
    [u \in Threads |->
        IF u # t /\ th[u].stale = "pending" /\ Covers(threads[t], u)
        THEN [th[u] EXCEPT !.stale = "settled"]
        ELSE th[u]]

\* Caller t returns ret after invalidating entries under the calls in flight.
FinishInvalidation(t, ret) ==
    Settle([u \in Threads |->
               IF u = t THEN [threads[t] EXCEPT !.pc = "done", !.ret = ret]
               ELSE IF InFlight(u) THEN [threads[u] EXCEPT !.disturbed = TRUE]
               ELSE threads[u]], t)

\* A caller issues a call.  fresh: the identifier is not cached as the call
\* begins; cold: no external service is cached as it begins; overlaps: the
\* callers whose call is in flight as it begins; late: the callers holding
\* an entity from before an edit whose invalidation has returned.
TStart(t) ==
    /\ ~InFlight(t)
    /\ issued < MaxCalls
    /\ \E call \in ThreadCalls :
          threads' = [u \in Threads |->
              IF u = t
              THEN [Idle EXCEPT !.pc = FirstPc(call.op), !.op = call.op,
                                !.cat = call.cat, !.id = call.id,
                                !.fresh = call.id \notin DOMAIN instance_cache,
                                !.cold = service_cache = EmptyDict,
                                !.late = {v \in Threads \ {t} :
                                             threads[v].stale = "settled"},
                                !.overlaps = {v \in Threads \ {t} : InFlight(v)}]
              ELSE [threads[u] EXCEPT
                       !.overlaps = @ \ {t},
                       !.late = @ \ {t},
                       !.stale = IF HoldsEntity(u) /\ Covers(call, u)
                                 THEN "pending" ELSE @]]
    /\ issued' = issued + 1
    /\ UNCHANGED <<instance_cache, service_cache, serial, lastCall, controller>>

\* A lookup that waits while another caller is inside a factory invocation,
\* as under one lock held around every construction.
TLookup_waiting(t) ==
    /\ threads[t].pc = "lookup"
    /\ \A u \in Threads \ {t} :
          threads[u].pc \notin {"svc_construct", "construct"}
    /\ LET entity == Lookup(RepoOf(threads[t].cat), threads[t].id)
       IN threads' = IF entity.exists
                     THEN [threads EXCEPT ![t].pc = "check", ![t].entity = entity]
                     ELSE Finish(t, None)
    /\ UNCHANGED <<instance_cache, service_cache, serial, lastCall, issued, controller>>

\* "<repo>.get_by_id(id); if not entity: return None"
TLookup(t) ==
    /\ threads[t].pc = "lookup"
    /\ LET entity == Lookup(RepoOf(threads[t].cat), threads[t].id)
       IN threads' = IF entity.exists
                     THEN [threads EXCEPT ![t].pc = "check", ![t].entity = entity]
                     ELSE Finish(t, None)
    /\ UNCHANGED <<instance_cache, service_cache, serial, lastCall, issued, controller>>

\* "if entity.id in self._instance_cache", then on a miss
\* "if entity.external_service_id"
TCheck(t) ==
    /\ threads[t].pc = "check"
    /\ threads' = Goto(t, IF threads[t].id \in DOMAIN instance_cache THEN "read"
                          ELSE IF threads[t].entity.external_service_id # NoId
                               THEN "svc_lookup"
                          ELSE "construct")
    /\ UNCHANGED <<instance_cache, service_cache, serial, lastCall, issued, controller>>

\* "cached_instance = self._instance_cache[entity.id]" and the checks on it
TRead(t) ==
    /\ threads[t].pc = "read"
    /\ threads' = IF threads[t].id \in DOMAIN instance_cache
                  THEN Finish(t, check_cached(instance_cache[threads[t].id],
                                              Port(threads[t].cat)))
                  ELSE Finish(t, Raised("KeyError"))
    /\ UNCHANGED <<instance_cache, service_cache, serial, lastCall, issued, controller>>

\* get_external_service: "external_service_repo.get_by_id(id)"; a missing
\* service makes the initializer raise ValueError.
TServiceLookup(t) ==
    /\ threads[t].pc = "svc_lookup"
    /\ LET es == Lookup(ServiceRepo, threads[t].entity.external_service_id)
       IN threads' = IF es.exists
                     THEN [threads EXCEPT ![t].pc = "svc_check", ![t].es = es]
                     ELSE Finish(t, Raised("ValueError"))
    /\ UNCHANGED <<instance_cache, service_cache, serial, lastCall, issued, controller>>

\* "if external_service.id in self._service_cache", then the type branch
TServiceCheck(t) ==
    /\ threads[t].pc = "svc_check"
    /\ threads' =
          IF threads[t].entity.external_service_id \in DOMAIN service_cache
          THEN Goto(t, "svc_read")
          ELSE IF threads[t].es.adapter_type = "HOME_ASSISTANT_API"
               THEN Goto(t, "svc_construct")
          ELSE Finish(t, Raised("ValueError"))
    /\ UNCHANGED <<instance_cache, service_cache, serial, lastCall, issued, controller>>

\* "return self._service_cache[external_service.id]"
TServiceRead(t) ==
    /\ threads[t].pc = "svc_read"
    /\ LET s == threads[t].entity.external_service_id
       IN threads' =
             IF s \notin DOMAIN service_cache THEN Finish(t, Raised("KeyError"))
             ELSE IF ~Truthy(service_cache[s]) THEN Finish(t, Raised("ValueError"))
             ELSE [threads EXCEPT ![t].pc = "construct",
                                  ![t].external_service = service_cache[s]]
    /\ UNCHANGED <<instance_cache, service_cache, serial, lastCall, issued, controller>>

\* "instance_service = external_service_factory.create(...)"
TServiceConstruct(t) ==
    /\ threads[t].pc = "svc_construct"
    /\ \E so \in FactoryOutcomes :
          LET r == create_external_service(instance_cache, service_cache, serial,
                       threads[t].entity.external_service_id, so)
              calls == threads[t].calls \o r.calls
          IN /\ r.serial <= MaxThreadBuilds + 1
             /\ serial' = r.serial
             /\ threads' =
                   IF so = "raise"
                   THEN [threads EXCEPT ![t].pc = "done", ![t].calls = calls,
                                        ![t].ret = Raised("ValueError")]
                   ELSE [threads EXCEPT ![t].pc = "svc_write", ![t].calls = calls,
                                        ![t].external_service = r.ret]
    /\ UNCHANGED <<instance_cache, service_cache, lastCall, issued, controller>>

\* "self._service_cache[external_service.id] = instance_service", and back
\* in the initializer "if not external_service: raise ValueError"
TServiceWrite(t) ==
    /\ threads[t].pc = "svc_write"
    /\ service_cache' = Put(service_cache, threads[t].entity.external_service_id,
                            threads[t].external_service)
    /\ threads' = IF Truthy(threads[t].external_service)
                  THEN Goto(t, "construct")
                  ELSE Finish(t, Raised("ValueError"))
    /\ UNCHANGED <<instance_cache, serial, lastCall, issued, controller>>

\* The try block up to the construction of the instance.
TConstruct(t) ==
    /\ threads[t].pc = "construct"
    /\ LET c == threads[t].cat
           entity == threads[t].entity
           dep == Out(threads[t].external_service, EmptyDict, EmptyDict, serial,
                      threads[t].calls)
       IN IF entity.adapter_type \notin SupportedTypes(c)
          THEN threads' = Finish(t, None) /\ serial' = serial
          ELSE \E fo \in IF UsesFactory(c, entity.adapter_type)
                         THEN FactoryOutcomes ELSE {"ok", "raise"} :
                  LET r == build_adapter(c, dep, threads[t].id, entity,
                               IF UsesFactory(c, entity.adapter_type)
                               THEN threads[t].external_service ELSE None, fo)
                  IN /\ r.serial <= MaxThreadBuilds + 1
                     /\ serial' = r.serial
                     /\ threads' =
                           IF fo = "raise"
                           THEN [threads EXCEPT ![t].pc = "done",
                                                ![t].calls = r.calls,
                                                ![t].ret = None]
                           ELSE [threads EXCEPT ![t].pc = "write",
                                                ![t].calls = r.calls,
                                                ![t].instance = r.ret]
    /\ UNCHANGED <<instance_cache, service_cache, lastCall, issued, controller>>

\* "self._instance_cache[entity.id] = instance; return instance"
TWrite(t) ==
    /\ threads[t].pc = "write"
    /\ instance_cache' = Put(instance_cache, threads[t].id, threads[t].instance)
    /\ threads' = Finish(t, threads[t].instance)
    /\ UNCHANGED <<service_cache, serial, lastCall, issued, controller>>

\* remove_adapter: "if entity_id in self._instance_cache"
TRemoveCheck(t) ==
    /\ threads[t].pc = "rm_check"
    /\ threads' = IF threads[t].id \in DOMAIN instance_cache
                  THEN Goto(t, "rm_del") ELSE Settle(Finish(t, None), t)
    /\ UNCHANGED <<instance_cache, service_cache, serial, lastCall, issued, controller>>

\* remove_adapter: "del self._instance_cache[entity_id]"
TRemoveDelete(t) ==
    /\ threads[t].pc = "rm_del"
    /\ IF threads[t].id \in DOMAIN instance_cache
       THEN /\ instance_cache' = Del(instance_cache, threads[t].id)
            /\ threads' = FinishInvalidation(t, None)
       ELSE /\ instance_cache' = instance_cache
            /\ threads' = Settle(Finish(t, Raised("KeyError")), t)
    /\ UNCHANGED <<service_cache, serial, lastCall, issued, controller>>

\* clear_all_adapters: "self._instance_cache = {}"
TClear(t) ==
    /\ threads[t].pc = "clear"
    /\ instance_cache' = EmptyDict
    /\ threads' = FinishInvalidation(t, None)
    /\ UNCHANGED <<service_cache, serial, lastCall, issued, controller>>

NextThreads ==
    \E t \in Threads :
        \/ TStart(t)
        \/ TLookup(t)
        \/ TCheck(t)
        \/ TRead(t)
        \/ TServiceLookup(t)
        \/ TServiceCheck(t)
        \/ TServiceRead(t)
        \/ TServiceConstruct(t)
        \/ TServiceWrite(t)
        \/ TConstruct(t)
        \/ TWrite(t)
        \/ TRemoveCheck(t)
        \/ TRemoveDelete(t)
        \/ TClear(t)

SpecThreads == Init /\ [][NextThreads]_vars

\* A step of the call of caller t.
Advance(t) ==
    \/ TLookup(t) \/ TCheck(t) \/ TRead(t)
    \/ TServiceLookup(t) \/ TServiceCheck(t) \/ TServiceRead(t)
    \/ TServiceConstruct(t) \/ TServiceWrite(t)
    \/ TConstruct(t) \/ TWrite(t)
    \/ TRemoveCheck(t) \/ TRemoveDelete(t) \/ TClear(t)

\* The callers where caller 2 is a thread that keeps running, while caller
\* 1 may stay for ever where it is, for instance inside a factory's
\* create() that does not return.
Running == 2
Slow == 1
SpecStalled == Init /\ [][NextThreads]_vars /\ WF_vars(Advance(Running))

(***************************************************************************)
(* The pyasic miner controller, edge_mining/adapters/domain/miner/         *)
(* controllers/pyasic.py, and run_async_func of edge_mining/adapters/      *)
(* utils.py, through which it awaits the device.  What the device answers  *)
(* and whether the caller runs inside an event loop are inputs of a call.  *)
(* Python values are written as strings: "None", "True", "False".          *)
(***************************************************************************)
\* What awaiting a coroutine ends in: a value, or an exception; by names
\* who raised it.
Returned(v) == [kind |-> "return", value |-> v]
Thrown(e, by) == [kind |-> "raise", exc |-> e, by |-> by]

\* The exceptions a coroutine may raise; NotImplementedError is a subclass
\* of RuntimeError.
ExceptionTypes == {"ValueError", "RuntimeError", "NotImplementedError"}
IsRuntimeError(e) == e \in {"RuntimeError", "NotImplementedError"}

\* "asyncio.run(func())" in a thread where an event loop is running (loop)
\* or not: func() creates the coroutine, then asyncio.run refuses to start
\* under a running loop, or runs the coroutine to its end co.  r counts the
\* coroutines created and run so far.
asyncio_run(loop, co, r) ==
    IF loop
    THEN [ret |-> Thrown("RuntimeError", "asyncio.run"), runs |-> r.runs,
          created |-> r.created + 1]
    ELSE [ret |-> co, runs |-> r.runs + 1, created |-> r.created + 1]

\* run_async_func(func), lines 29-35: under a running loop the coroutine
\* runs in a worker thread (which has no loop) and result() hands back its
\* value or exception; "except RuntimeError" catches the RuntimeError of
\* get_running_loop and any RuntimeError result() raised, and calls
\* asyncio.run(func()) in the calling thread.
run_async_func(loop, co) ==
    LET start == [ret |-> Returned("None"), runs |-> 0, created |-> 0]
        tried == IF ~loop
                 THEN [start EXCEPT
                          !.ret = Thrown("RuntimeError", "get_running_loop")]
                 ELSE asyncio_run(FALSE, co, start)
    IN IF tried.ret.kind = "raise" /\ IsRuntimeError(tried.ret.exc)
       THEN asyncio_run(loop, co, tried)
       ELSE tried

\* The inputs of a controller call: whether it is made inside a running
\* event loop, what pyasic.get_miner(ip) ends in, and what the awaited
\* method of the miner instance ends in.
Passwords == {"None", "secret"}
Lookups ==
    {Returned("AnyMiner"), Returned("None")}
    \cup {Thrown(e, "coroutine") : e \in ExceptionTypes}
Answers(op) ==
    (CASE op = "get_miner_hashrate" -> {Returned("None"), Returned("HashRate")}
       [] op = "get_miner_power" -> {Returned("None"), Returned("Watts")}
       [] OTHER -> {Returned("True"), Returned("False"), Returned("None")})
    \cup {Thrown(e, "coroutine") : e \in ExceptionTypes}
DeviceInputs(op) ==
    {[loop |-> loop, lookup |-> lookup, answer |-> answer] :
        loop \in BOOLEAN, lookup \in Lookups, answer \in Answers(op)}

\* The outcome of a controller method: what it returns or raises, the object
\* afterwards, the device lookups made and the commands sent to the device.
Done(ret, ctl, lookups, commands) ==
    [ret |-> ret, controller |-> ctl, lookups |-> lookups,
     commands |-> commands]

\* _get_miner, lines 91-106.  The lookup is made only when self._miner is
\* already set and a password is configured; its exception is caught.
get_miner(ctl, in) ==
    IF ctl.miner # "None" /\ ctl.password # "None"
    THEN LET r == run_async_func(in.loop, in.lookup)
         IN IF r.ret.kind = "return" /\ r.ret.value # "None"
            THEN Done(Returned("None"), [ctl EXCEPT !.miner = r.ret.value], 1, <<>>)
            ELSE Done(Returned("None"), ctl, 1, <<>>)
    ELSE Done(Returned("None"), ctl, 0, <<>>)

\* "self._get_miner(); if not self._miner: return <empty>; miner =
\* self._miner; <x> = run_async_func(lambda: miner.<command>())": empty is
\* what the method returns without a miner instance; the awaited answer, or
\* the exception that leaves the method, is in ret.
await_miner(ctl, in, command, empty) ==
    LET g == get_miner(ctl, in)
    IN IF g.controller.miner = "None"
       THEN Done(Returned(empty), g.controller, g.lookups, <<>>)
       ELSE Done(run_async_func(in.loop, in.answer).ret, g.controller,
                 g.lookups, <<command>>)

\* A status getter that asks the device without checking self._miner.
get_miner_status_unguarded(ctl, in) ==
    LET g == get_miner(ctl, in)
        d == Done(run_async_func(in.loop, in.answer).ret, g.controller,
                  g.lookups, <<"is_mining">>)
    IN IF d.ret.kind = "raise" THEN d
       ELSE [d EXCEPT !.ret = Returned(CASE d.ret.value = "True" -> "ON"
                                         [] d.ret.value = "False" -> "OFF"
                                         [] OTHER -> "UNKNOWN")]

\* get_miner_status, lines 163-190: state_map.get(mining_state, UNKNOWN).
get_miner_status(ctl, in) ==
    LET d == await_miner(ctl, in, "is_mining", "UNKNOWN")
    IN IF d.ret.kind = "raise" \/ d.commands = <<>> THEN d
       ELSE [d EXCEPT !.ret = Returned(CASE d.ret.value = "True" -> "ON"
                                         [] d.ret.value = "False" -> "OFF"
                                         [] OTHER -> "UNKNOWN")]

\* get_miner_hashrate, lines 108-135: None, or HashRate(value, unit).
get_miner_hashrate(ctl, in) == await_miner(ctl, in, "get_hashrate", "None")

\* get_miner_power, lines 137-161: None, or Watts(wattage).
get_miner_power(ctl, in) == await_miner(ctl, in, "get_wattage", "None")

\* stop_miner, lines 192-211, and start_miner, lines 213-232:
\* "return success or False".
stop_miner(ctl, in) ==
    LET d == await_miner(ctl, in, "stop_mining", "False")
    IN IF d.ret.kind = "raise" \/ d.commands = <<>> THEN d
       ELSE [d EXCEPT !.ret = Returned(IF d.ret.value = "True" THEN "True"
                                       ELSE "False")]

start_miner(ctl, in) ==
    LET d == await_miner(ctl, in, "resume_mining", "False")
    IN IF d.ret.kind = "raise" \/ d.commands = <<>> THEN d
       ELSE [d EXCEPT !.ret = Returned(IF d.ret.value = "True" THEN "True"
                                       ELSE "False")]

ControllerOps ==
    {"get_miner_hashrate", "get_miner_power", "get_miner_status",
     "stop_miner", "start_miner"}

RunController(op, ctl, in) ==
    CASE op = "get_miner_hashrate" -> get_miner_hashrate(ctl, in)
      [] op = "get_miner_power" -> get_miner_power(ctl, in)
      [] op = "get_miner_status" -> get_miner_status(ctl, in)
      [] op = "stop_miner" -> stop_miner(ctl, in)
      [] op = "start_miner" -> start_miner(ctl, in)

\* PyASICMinerControllerAdapterFactory.create, lines 39-60: a configuration
\* of another class raises; otherwise a new controller is built from it.
Create ==
    \E valid \in BOOLEAN : \E password \in Passwords :
        /\ controller' = IF valid THEN PyASICMinerController(password)
                         ELSE controller
        /\ lastCall' = [op |-> "create", password |-> password,
                        ret |-> IF valid THEN Returned("PyASICMinerController")
                                ELSE Thrown("MinerControllerConfigurationError",
                                            "create")]
        /\ UNCHANGED <<instance_cache, service_cache, serial, threads, issued>>

\* A call of a method of the controller.
Control(op) ==
    \E in \in DeviceInputs(op) :
        LET d == RunController(op, controller, in)
        IN /\ controller' = d.controller
           /\ lastCall' = [op |-> op, in |-> in, ret |-> d.ret,
                           lookups |-> d.lookups, commands |-> d.commands]
           /\ UNCHANGED <<instance_cache, service_cache, serial, threads, issued>>

GetMinerHashrate == Control("get_miner_hashrate")
GetMinerPower == Control("get_miner_power")
GetMinerStatus == Control("get_miner_status")
StopMiner == Control("stop_miner")
StartMiner == Control("start_miner")

\* The coroutines run_async_func is handed.
Coroutines ==
    {Returned(v) : v \in {"None", "True", "AnyMiner"}}
    \cup {Thrown(e, "coroutine") : e \in ExceptionTypes}

\* A call of run_async_func.
RunAsyncFunc ==
    \E loop \in BOOLEAN : \E co \in Coroutines :
        LET r == run_async_func(loop, co)
        IN /\ lastCall' = [op |-> "run_async_func", loop |-> loop, co |-> co,
                           ret |-> r.ret, runs |-> r.runs,
                           created |-> r.created]
           /\ UNCHANGED <<instance_cache, service_cache, serial, threads,
                          issued, controller>>

NextPyASIC ==
    \/ Create
    \/ GetMinerHashrate
    \/ GetMinerPower
    \/ GetMinerStatus
    \/ StopMiner
    \/ StartMiner
    \/ RunAsyncFunc

SpecPyASIC == Init /\ [][NextPyASIC]_vars

(***************************************************************************)
(* The notifier test endpoint, edge_mining/adapters/domain/notification/   *)
(* fast_api/router.py: POST /notifiers/{notifier_id}/test on the registry. *)
(***************************************************************************)
\* What the handler ends in: the success body, or an HTTPException.
Response(status) == [kind |-> "response", status |-> status]

\* What awaiting notifier_port.send_notification(...) does.
SendOutcomes == {"ok", "raise"}

\* An endpoint that reports every failure of get_notifier as "not found".
test_notifier_lenient(notifier_port, sent) ==
    IF notifier_port.kind = "raise" THEN Response("404")
    ELSE IF notifier_port = None THEN Response("404")
    ELSE IF sent = "raise" THEN Response("500")
    ELSE Response("200")

\* test_notifier, lines 212-233.  notifier_port is what
\* adapter_service.get_notifier(notifier_id) returned or raised: its
\* exception goes to "except Exception" (500); None raises
\* NotifierNotFoundError (404); an exception of send_notification gives 500.
test_notifier(notifier_port, sent) ==
    IF notifier_port.kind = "raise" THEN Response("500")
    ELSE IF notifier_port = None THEN Response("404")
    ELSE IF sent = "raise" THEN Response("500")
    ELSE Response("200")

\* A request to the endpoint: the registry's get_notifier runs on the
\* caches, then the notification is sent.
TestNotifier ==
    \E in \in Inputs("notifier", instance_cache, service_cache, serial, Ids, "any") :
    \E sent \in SendOutcomes :
        LET r == Run("notifier", instance_cache, service_cache, serial, in)
        IN /\ r.serial <= MaxBuilds + 1
           /\ instance_cache' = r.instance_cache
           /\ service_cache' = r.service_cache
           /\ serial' = r.serial
           /\ lastCall' = [notifier_port |-> r.ret, sent |-> sent]
                           @@ Call("test_notifier", "notifier", in,
                                   test_notifier(r.ret, sent), r.calls,
                                   EmptyDict)
           /\ UNCHANGED <<threads, issued, controller>>

\* The endpoint, the external service getter and the invalidations.
NextApi ==
    \/ TestNotifier
    \/ GetExternalService
    \/ ClearAllAdapters
    \/ RemoveAdapter(Ids)
    \/ ClearAllServices
    \/ RemoveService(Ids)

SpecApi == Init /\ [][NextApi]_vars

(***************************************************************************)
(* The energy adapter maps, edge_mining/shared/adapter_maps/energy.py,     *)
(* over the enum of edge_mining/domain/energy/common.py.  The maps are     *)
(* module-level dict displays, evaluated once when the module is imported. *)
(***************************************************************************)
\* The members of EnergySourceType (HYDROELECTRIC is commented out).
EnergySourceType == {"SOLAR", "WIND", "GRID", "OTHER"}

\* The member names the dict displays of energy.py use as keys.
SourceKeys == {"SOLAR", "WIND", "GRID", "HYDROELECTRIC", "OTHER"}

\* A dict display {Enum.NAME: value, ...}: reading a name that is not a
\* member of the enum raises AttributeError and no dict is built.
DictDisplay(enum, written) ==
    IF DOMAIN written \subseteq enum THEN written
    ELSE Raised("AttributeError")

ENERGY_SOURCE_TYPE_FORECAST_PROVIDER_TYPE_MAP ==
    DictDisplay(EnergySourceType,
        [k \in SourceKeys |->
            IF k = "SOLAR" THEN <<"DUMMY_SOLAR", "HOME_ASSISTANT_API">>
            ELSE <<"HOME_ASSISTANT_API">>])

ENERGY_SOURCE_TYPE_FORECAST_PROVIDER_CONFIG_MAP ==
    DictDisplay(EnergySourceType,
        [k \in SourceKeys |->
            IF k = "SOLAR" THEN <<"ForecastProviderDummySolarConfig",
                                  "ForecastProviderHomeAssistantConfig">>
            ELSE None])

ENERGY_SOURCE_TYPE_FORECAST_PROVIDER_CLASS_MAP ==
    DictDisplay(EnergySourceType,
        [k \in SourceKeys |->
            IF k = "SOLAR" THEN <<"DummySolarForecastProvider",
                                  "HomeAssistantForecastProvider">>
            ELSE None])

ENERGY_SOURCE_TYPE_ENERGY_MONITOR_MAP ==
    DictDisplay(EnergySourceType,
        [k \in SourceKeys |->
            IF k = "SOLAR" THEN <<"DUMMY_SOLAR", "HOME_ASSISTANT_API">>
            ELSE <<"HOME_ASSISTANT_API">>])

ENERGY_SOURCE_TYPE_ENERGY_MONITOR_CLASS_MAP ==
    DictDisplay(EnergySourceType,
        [k \in SourceKeys |->
            IF k = "SOLAR" THEN <<"DummySolarEnergyMonitor",
                                  "HomeAssistantAPIEnergyMonitor">>
            ELSE <<"HomeAssistantAPIEnergyMonitor">>])

\* The maps keyed by EnergyMonitorAdapter, with the members they name.
ENERGY_MONITOR_CONFIG_TYPE_MAP ==
    [k \in {"DUMMY_SOLAR", "HOME_ASSISTANT_API"} |->
        IF k = "DUMMY_SOLAR" THEN "EnergyMonitorDummySolarConfig"
        ELSE "EnergyMonitorHomeAssistantConfig"]

ENERGY_MONITOR_TYPE_EXTERNAL_SERVICE_MAP ==
    [k \in {"DUMMY_SOLAR", "HOME_ASSISTANT_API"} |->
        IF k = "DUMMY_SOLAR" THEN "None" ELSE "HOME_ASSISTANT_API"]

\* The module's names in the order its statements define them.
EnergyMapNames ==
    <<"ENERGY_SOURCE_TYPE_FORECAST_PROVIDER_TYPE_MAP",
      "ENERGY_SOURCE_TYPE_FORECAST_PROVIDER_CONFIG_MAP",
      "ENERGY_SOURCE_TYPE_FORECAST_PROVIDER_CLASS_MAP",
      "ENERGY_SOURCE_TYPE_ENERGY_MONITOR_MAP",
      "ENERGY_SOURCE_TYPE_ENERGY_MONITOR_CLASS_MAP",
      "ENERGY_MONITOR_CONFIG_TYPE_MAP",
      "ENERGY_MONITOR_TYPE_EXTERNAL_SERVICE_MAP">>

EnergyMapValue(name) ==
    CASE name = "ENERGY_SOURCE_TYPE_FORECAST_PROVIDER_TYPE_MAP" ->
           ENERGY_SOURCE_TYPE_FORECAST_PROVIDER_TYPE_MAP
      [] name = "ENERGY_SOURCE_TYPE_FORECAST_PROVIDER_CONFIG_MAP" ->
           ENERGY_SOURCE_TYPE_FORECAST_PROVIDER_CONFIG_MAP
      [] name = "ENERGY_SOURCE_TYPE_FORECAST_PROVIDER_CLASS_MAP" ->
           ENERGY_SOURCE_TYPE_FORECAST_PROVIDER_CLASS_MAP
      [] name = "ENERGY_SOURCE_TYPE_ENERGY_MONITOR_MAP" ->
           ENERGY_SOURCE_TYPE_ENERGY_MONITOR_MAP
      [] name = "ENERGY_SOURCE_TYPE_ENERGY_MONITOR_CLASS_MAP" ->
           ENERGY_SOURCE_TYPE_ENERGY_MONITOR_CLASS_MAP
      [] name = "ENERGY_MONITOR_CONFIG_TYPE_MAP" ->
           ENERGY_MONITOR_CONFIG_TYPE_MAP
      [] name = "ENERGY_MONITOR_TYPE_EXTERNAL_SERVICE_MAP" ->
           ENERGY_MONITOR_TYPE_EXTERNAL_SERVICE_MAP

\* Importing edge_mining.shared.adapter_maps.energy runs its assignments
\* in order: the first display that raises aborts the import, and the
\* importer gets the exception instead of a module.
import_energy_maps ==
    IF \E i \in DOMAIN EnergyMapNames :
          "kind" \in DOMAIN EnergyMapValue(EnergyMapNames[i])
    THEN Raised("AttributeError")
    ELSE [kind |-> "module",
          names |-> [n \in Range(EnergyMapNames) |-> EnergyMapValue(n)]]

ImportEnergyMaps ==
    /\ lastCall' = [op |-> "import", ret |-> import_energy_maps]
    /\ UNCHANGED <<instance_cache, service_cache, serial, threads, issued,
                   controller>>

\* The energy domain: the import of its adapter maps, and the registry's
\* getters and invalidations of energy monitors and forecast providers.
NextEnergy ==
    \/ ImportEnergyMaps
    \/ GetEnergyMonitor
    \/ GetForecastProvider
    \/ GetExternalService
    \/ ClearAllAdapters
    \/ RemoveAdapter(Ids)
    \/ ClearAllServices
    \/ RemoveService(Ids)

SpecEnergy == Init /\ [][NextEnergy]_vars

(***************************************************************************)
(* Properties.  A getter is a function of the caches, the serial and the   *)
(* inputs of the call, so a law about one call, or about consecutive       *)
(* calls, is stated in every reachable state for every call that can be    *)
(* made there.                                                             *)
(***************************************************************************)
\* The number of invocations of the factory of category c.
Count(calls, c) == Cardinality({i \in DOMAIN calls : calls[i] = c})

\* The calls that can be made in this state, and what one of them does.
Here(c) == Inputs(c, instance_cache, service_cache, serial, Ids, "any")
Now(c, in) == Run(c, instance_cache, service_cache, serial, in)

\* The same getter called in the state the call with result r left.
After(r, c, in) == Run(c, r.instance_cache, r.service_cache, r.serial, in)

\* The cache a getter stores its instances in.
CacheOf(c, ic, sc) == IF c = "external_service" THEN sc ELSE ic

\* The external service the entity names can be resolved: its entity exists
\* and its instance is cached or its factory builds it.
ServiceResolves(c, in, sc) ==
    LET s == in.entity.external_service_id
    IN \/ s = NoId
       \/ c = "home_forecast_provider"
       \/ /\ in.es.exists
          /\ IF s \in DOMAIN sc THEN Truthy(sc[s])
             ELSE /\ in.es.adapter_type \in SupportedTypes("external_service")
                  /\ in.so = "ok"

\* The entity exists with a supported adapter type and everything its
\* construction reads, and the factories succeed.
Constructible(c, in, sc) ==
    /\ in.id # NoId
    /\ in.entity.exists
    /\ in.entity.adapter_type \in SupportedTypes(c)
    /\ in.fo = "ok"
    /\ c # "external_service" =>
          /\ in.entity.config
          /\ in.limits
          /\ ServiceResolves(c, in, sc)

\* C1: memoization.  For every category getter, two consecutive calls for an
\* identifier that is not cached yet, whose entity exists with a supported
\* adapter type and a succeeding factory, return the identical instance, and
\* the factory is invoked exactly once across the two calls.
C1_Memoization ==
    \A c \in Getters : \A in \in Here(c) :
        (/\ Constructible(c, in, service_cache)
         /\ in.id \notin DOMAIN CacheOf(c, instance_cache, service_cache))
        => LET r1 == Now(c, in)
               r2 == After(r1, c, in)
           IN /\ Truthy(r1.ret)
              /\ r2.ret = r1.ret
              /\ Count(r1.calls, c) + Count(r2.calls, c) = 1

\* C4: for an identifier absent from the repository, and for an energy
\* source or miner whose link is unset, the getter returns None (a batch
\* getter: the empty list), invokes no factory and leaves both caches
\* unchanged.
C4_AbsentIsEmpty ==
    /\ \A c \in Getters : \A in \in Here(c) :
           (in.id = NoId \/ ~in.entity.exists)
           => LET r == Now(c, in)
              IN /\ r.ret = None
                 /\ r.calls = <<>>
                 /\ r.instance_cache = instance_cache
                 /\ r.service_cache = service_cache
    /\ \A n \in 0..MaxBatch : \A ids \in [1..n -> Ids] :
           LET r == get_notifiers(instance_cache, service_cache, serial, ids,
                        EmptyDict, EmptyDict, Quiet(n).sos, Quiet(n).fos)
               a == get_all_notifiers(instance_cache, service_cache, serial,
                        <<>>, EmptyDict, EmptyDict, <<>>, <<>>)
           IN /\ r = Out(ListOf(<<>>), instance_cache, service_cache, serial, <<>>)
              /\ a = r

\* A getter was called for an absent entity while the caches held entries.
C4_Witness ==
    /\ lastCall.cat \in Getters
    /\ ~lastCall.entity.exists
    /\ lastCall.ret = None
    /\ instance_cache # EmptyDict
    /\ service_cache # EmptyDict

\* C5: after a getter call that constructed and returned the instance of
\* id, remove_adapter(id) followed by the next getter call for id makes
\* exactly one new factory invocation; the call returns the newly
\* constructed instance, which is then the cached one.
C5_RemoveThenRebuild ==
    \A c \in Categories : \A in \in Here(c) :
        LET r1 == Now(c, in)
        IN (in.id \notin DOMAIN instance_cache /\ Truthy(r1.ret))
           => LET ic2 == remove_adapter(r1.instance_cache, in.id)
                  r3 == Run(c, ic2, r1.service_cache, r1.serial, in)
              IN /\ Count(r3.calls, c) = 1
                 /\ Truthy(r3.ret)
                 /\ r3.ret # r1.ret
                 /\ r3.ret.serial >= r1.serial
                 /\ in.id \in DOMAIN r3.instance_cache
                 /\ r3.instance_cache[in.id] = r3.ret

\* remove_adapter(id) dropped an instance a getter had constructed for id.
C5_Witness ==
    /\ lastCall.op = "remove_adapter"
    /\ lastCall.id \in DOMAIN lastCall.dropped
    /\ Truthy(lastCall.dropped[lastCall.id])
    /\ lastCall.id \notin DOMAIN instance_cache

\* C7: for every category getter, an entity whose adapter type has no
\* construction branch makes the getter return None (no exception leaves
\* the getter) and creates no entry for the identifier in the cache.
C7_UnsupportedTypeFails ==
    \A c \in Getters : \A in \in Here(c) :
        (/\ in.id # NoId
         /\ in.entity.exists
         /\ in.entity.adapter_type = OtherType
         /\ in.id \notin DOMAIN CacheOf(c, instance_cache, service_cache))
        => LET r == Now(c, in)
           IN /\ r.ret = None
              /\ in.id \notin DOMAIN CacheOf(c, r.instance_cache, r.service_cache)

\* C8: with energy source S1 -> energy monitor M1 -> external service ES1
\* all present and both caches empty, get_energy_monitor(S1) invokes the ES1
\* factory, then the M1 factory, leaves ES1 in the service cache and M1 in
\* the instance cache and returns M1; a second call returns the same M1 and
\* invokes no factory.
C8_DependencyOrdering ==
    (instance_cache = EmptyDict /\ service_cache = EmptyDict)
    => \A in \in Here("energy_monitor") :
           (/\ Constructible("energy_monitor", in, service_cache)
            /\ in.entity.external_service_id # NoId)
           => LET r1 == Now("energy_monitor", in)
                  r2 == After(r1, "energy_monitor", in)
                  ES1 == in.entity.external_service_id
              IN /\ r1.calls = <<"external_service", "energy_monitor">>
                 /\ ES1 \in DOMAIN r1.service_cache
                 /\ Truthy(r1.service_cache[ES1])
                 /\ in.id \in DOMAIN r1.instance_cache
                 /\ r1.instance_cache[in.id] = r1.ret
                 /\ Truthy(r1.ret)
                 /\ r1.ret.port = "EnergyMonitorPort"
                 /\ r1.ret.external_service = r1.service_cache[ES1]
                 /\ r2.ret = r1.ret
                 /\ r2.calls = <<>>

\* get_energy_monitor(S1) has just built ES1 and then M1 from empty caches.
C8_Witness ==
    /\ lastCall.op = "get_energy_monitor"
    /\ lastCall.calls = <<"external_service", "energy_monitor">>
    /\ Truthy(lastCall.ret)
    /\ DOMAIN instance_cache = {lastCall.id}
    /\ DOMAIN service_cache = {lastCall.entity.external_service_id}
    /\ serial = 3

(***************************************************************************)
(* Properties of the deployment.                                           *)
(***************************************************************************)
\* The calls of getter c on the deployment, on caches ic, sc.
DeployedInputs(c, ic, sc, ser) ==
    Inputs(c, ic, sc, ser, IF c = "external_service" THEN Ids ELSE DeployedIds,
           "deployed")

\* The call constructed the instance it returned.
Builds(r, c) == Truthy(r.ret) /\ Count(r.calls, c) = 1

\* C3: shared dependency.  When two different adapter entities name the
\* same external service and both are constructed through their getters, one
\* right after the other or with the service still cached as the first one
\* received it (no service invalidation in between), both factories receive
\* the identical external service instance, and the service factory is
\* invoked once: by the first construction when the service was not cached,
\* never by the second.
C3_SharedDependency ==
    /\ \A c1 \in DeployedCategories :
       \A in1 \in DeployedInputs(c1, instance_cache, service_cache, serial) :
          LET r1 == Now(c1, in1)
              s == in1.entity.external_service_id
          IN (Builds(r1, c1) /\ s # NoId)
             => \A c2 \in DeployedCategories :
                \A in2 \in DeployedInputs(c2, r1.instance_cache,
                                          r1.service_cache, r1.serial) :
                   LET r2 == After(r1, c2, in2)
                   IN (/\ in2.id # in1.id
                       /\ Builds(r2, c2)
                       /\ in2.entity.external_service_id = s)
                      => /\ Truthy(r1.ret.external_service)
                         /\ r2.ret.external_service = r1.ret.external_service
                         /\ r2.service_cache[s] = r1.ret.external_service
                         /\ Count(r1.calls \o r2.calls, "external_service")
                              = IF s \in DOMAIN service_cache THEN 0 ELSE 1
    /\ \A a \in DOMAIN instance_cache :
          (/\ Truthy(instance_cache[a])
           /\ Truthy(instance_cache[a].external_service)
           /\ instance_cache[a].external_service.id \in DOMAIN service_cache
           /\ service_cache[instance_cache[a].external_service.id]
                = instance_cache[a].external_service)
          => \A c2 \in DeployedCategories :
             \A in2 \in DeployedInputs(c2, instance_cache, service_cache, serial) :
                LET r2 == Now(c2, in2)
                IN (/\ in2.id # a
                    /\ Builds(r2, c2)
                    /\ in2.entity.external_service_id
                         = instance_cache[a].external_service.id)
                   => /\ r2.ret.external_service
                           = instance_cache[a].external_service
                      /\ Count(r2.calls, "external_service") = 0
                      /\ r2.service_cache = service_cache

\* A notifier and the miner controller are cached, both constructed with
\* the external service instance the service cache holds.
C3_Witness ==
    \E a, b \in DOMAIN instance_cache :
        /\ Truthy(instance_cache[a]) /\ Truthy(instance_cache[b])
        /\ instance_cache[a].port = "NotificationPort"
        /\ instance_cache[b].port = "MinerControlPort"
        /\ Truthy(instance_cache[a].external_service)
        /\ instance_cache[b].external_service = instance_cache[a].external_service
        /\ instance_cache[a].external_service.id \in DOMAIN service_cache
        /\ service_cache[instance_cache[a].external_service.id]
             = instance_cache[a].external_service

\* C6: clear_all_adapters empties the instance cache, and the next getter
\* call for any identifier that was cached does not return the instance
\* cached before the clear: when the entity is constructible it invokes the
\* factory once and returns and caches a new instance.
C6_ClearThenRebuild ==
    /\ clear_all_adapters(instance_cache) = EmptyDict
    /\ \A id \in DOMAIN instance_cache : \A c \in DeployedCategories :
          (Truthy(instance_cache[id]) /\ instance_cache[id].port = Port(c))
          => \A in \in DeployedInputs(c, clear_all_adapters(instance_cache),
                                      service_cache, serial) :
                in.id = id
                => LET r == Run(c, clear_all_adapters(instance_cache),
                                service_cache, serial, in)
                   IN /\ r.ret # instance_cache[id]
                      /\ Constructible(c, in, service_cache)
                         => /\ Builds(r, c)
                            /\ r.ret.serial >= serial
                            /\ id \in DOMAIN r.instance_cache
                            /\ r.instance_cache[id] = r.ret

\* clear_all_adapters dropped the cached instances of two categories.
C6_Witness ==
    /\ lastCall.op = "clear_all_adapters"
    /\ instance_cache = EmptyDict
    /\ \E a, b \in DOMAIN lastCall.dropped :
          /\ Truthy(lastCall.dropped[a]) /\ Truthy(lastCall.dropped[b])
          /\ lastCall.dropped[a].port = "NotificationPort"
          /\ lastCall.dropped[b].port = "MinerControlPort"

RECURSIVE Successes(_, _, _, _, _)
\* The instances the single-notifier getter yields for the items of batch b
\* from the i-th on, one call after the other, failures left out.
Successes(ic, sc, ser, b, i) ==
    IF i > Len(b.ids) THEN <<>>
    ELSE LET notifier == Lookup(NotifierRepo, b.ids[i])
             r == get_notifier(ic, sc, ser, b.ids[i], notifier,
                      IF notifier.exists THEN ServiceOf(b.service_repo, notifier)
                      ELSE NoEntity,
                      b.sos[i], b.fos[i])
         IN (IF Truthy(r.ret) THEN <<r.ret>> ELSE <<>>)
            \o Successes(r.instance_cache, r.service_cache, r.serial, b, i + 1)

\* C9: get_notifiers(ids) returns, in input order, exactly the instances of
\* the identifiers that are found and construct successfully; the others
\* are skipped and no exception leaves the call.
C9_BatchCollectsSuccesses ==
    \A b \in BatchInputs(instance_cache, service_cache, serial, Lists) :
        LET r == RunBatch("get_notifiers", instance_cache, service_cache,
                          serial, b)
        IN /\ r.ret.kind = "list"
           /\ r.ret.items = Successes(instance_cache, service_cache, serial, b, 1)

\* C10: get_notifiers and get_all_notifiers never abort on a per-item
\* failure: whatever fails for one notifier, an unresolvable external
\* service included, the call returns a list, and the list holds the
\* instance of every notifier of the batch that is constructible.
C10_BatchNeverAborts ==
    \A op \in {"get_notifiers", "get_all_notifiers"} :
    \A b \in BatchInputs(instance_cache, service_cache, serial,
                         IF op = "get_notifiers" THEN Lists ELSE {NotifierOrder}) :
        LET r == RunBatch(op, instance_cache, service_cache, serial, b)
        IN /\ r.ret.kind # "raise"
           /\ \A i \in DOMAIN b.ids :
                 LET notifier == Lookup(NotifierRepo, b.ids[i])
                     alone == get_notifier(instance_cache, service_cache, serial,
                                  b.ids[i], notifier,
                                  IF notifier.exists
                                  THEN ServiceOf(b.service_repo, notifier)
                                  ELSE NoEntity,
                                  b.sos[i], b.fos[i])
                 IN Truthy(alone.ret)
                    => /\ b.ids[i] \in DOMAIN r.instance_cache
                       /\ r.instance_cache[b.ids[i]] \in Range(r.ret.items)

(***************************************************************************)
(* Properties of concurrent callers.                                       *)
(***************************************************************************)
\* C2: construct once under concurrency.  When two callers concurrently
\* issue the first getter call for the same identifier, not cached as either
\* call begins, and nothing is invalidated meanwhile, the adapter factory is
\* invoked at most once, once if they receive an instance, and both callers
\* receive the same result.
C2_ConstructOnce ==
    \A t, u \in Threads :
        (/\ t # u
         /\ threads[t].pc = "done" /\ threads[u].pc = "done"
         /\ threads[t].op = "get" /\ threads[u].op = "get"
         /\ threads[t].cat = threads[u].cat
         /\ threads[t].id = threads[u].id
         /\ threads[t].fresh /\ threads[u].fresh
         /\ u \in threads[t].overlaps
         /\ ~threads[t].disturbed /\ ~threads[u].disturbed)
        => LET calls == threads[t].calls \o threads[u].calls
           IN /\ threads[t].ret = threads[u].ret
              /\ Count(calls, threads[t].cat) <= 1
              /\ Truthy(threads[t].ret) => Count(calls, threads[t].cat) = 1

(***************************************************************************)
(* Properties of failures (Spec).                                          *)
(***************************************************************************)
\* The getters whose entity may name an external service.
Dependents == Categories \ {"home_forecast_provider"}

\* The call constructs for an entity that is not cached and names an
\* external service that get_external_service does not deliver: its entity
\* is absent from the service repository, its type is unsupported, its
\* factory fails, or a falsy value is cached for it.
Unresolved(c, in, ic, sc, ser) ==
    /\ c \in Dependents
    /\ in.id # NoId
    /\ in.entity.exists
    /\ in.id \notin DOMAIN ic
    /\ in.entity.external_service_id # NoId
    /\ ~Truthy(get_external_service(ic, sc, ser, in.entity.external_service_id,
                                    in.es, in.so).ret)

\* C11: when the external service an adapter entity names is absent from
\* the repository or cannot be constructed, the category getter returns a
\* value to its caller: no exception leaves the getter.
C11_UnresolvedIsReturned ==
    \A c \in Dependents : \A in \in Here(c) :
        Unresolved(c, in, instance_cache, service_cache, serial)
        => Now(c, in).ret.kind # "raise"

\* C12: when the external service an adapter entity names cannot be
\* resolved, the call does not invoke the adapter factory and leaves the
\* instance cache as it was: no entry for the adapter's identifier.
C12_UnresolvedAbortsConstruction ==
    \A c \in Dependents : \A in \in Here(c) :
        Unresolved(c, in, instance_cache, service_cache, serial)
        => LET r == Now(c, in)
           IN /\ Count(r.calls, c) = 0
              /\ r.instance_cache = instance_cache
              /\ in.id \notin DOMAIN r.instance_cache

\* A getter tried to construct the external service its entity names, the
\* service factory failed, and the getter ended without an adapter cached.
C12_Witness ==
    /\ lastCall.cat \in Dependents
    /\ lastCall.entity.exists
    /\ lastCall.entity.external_service_id # NoId
    /\ lastCall.so # "ok"
    /\ lastCall.calls = <<"external_service">>
    /\ lastCall.ret = Raised("ValueError")
    /\ lastCall.id \notin DOMAIN instance_cache

\* C13: the value a getter returns for an absent entity (or an unset link)
\* differs from the value it returns for an existing entity whose
\* construction failed.
C13_EmptyDiffersFromFailure ==
    \A c \in Getters : \A absent \in Here(c) : \A failed \in Here(c) :
        (/\ absent.id = NoId \/ ~absent.entity.exists
         /\ failed.id # NoId
         /\ failed.entity.exists
         /\ failed.id \notin DOMAIN CacheOf(c, instance_cache, service_cache)
         /\ failed.entity.adapter_type = OtherType \/ failed.fo = "raise"
         /\ Now(c, failed).ret.kind \notin {"instance", "raise"})
        => Now(c, absent).ret # Now(c, failed).ret

\* The instance cache holds under id a value of another category's port.
Collides(c, id, ic) ==
    /\ id \in DOMAIN ic
    /\ Truthy(ic[id])
    /\ ic[id].port # Port(c)

\* C14: type guard.  When the instance cache holds under the requested
\* identifier an instance that does not satisfy the category's port, the
\* getter treats it as a miss: it invokes the category's factory, caches the
\* new instance under the identifier and returns it.
C14_TypeGuardReconstructs ==
    \A c \in Categories : \A in \in Here(c) :
        (/\ Collides(c, in.id, instance_cache)
         /\ Constructible(c, in, service_cache))
        => LET r == Now(c, in)
           IN /\ Truthy(r.ret)
              /\ r.ret.port = Port(c)
              /\ Count(r.calls, c) = 1
              /\ r.instance_cache[in.id] = r.ret

\* C15: whatever the caches hold after any sequence of getter and
\* invalidation calls over the six categories that share the instance
\* cache, an instance a category getter returns satisfies the category's
\* port: the getter just called returned such an instance, and so does every
\* call that can be made now, on a cache hit too.
C15_ReturnsOnlyOwnPort ==
    /\ (lastCall.cat \in Categories /\ Truthy(lastCall.ret))
       => lastCall.ret.port = Port(lastCall.cat)
    /\ \A c \in Categories : \A in \in Here(c) :
          LET r == Now(c, in)
          IN Truthy(r.ret) => r.ret.port = Port(c)

\* A getter was called for an identifier under which the instance cache
\* holds another category's instance, and returned None.
C15_Witness ==
    /\ lastCall.cat \in Categories
    /\ lastCall.entity.exists
    /\ Collides(lastCall.cat, lastCall.id, instance_cache)
    /\ lastCall.ret = None

\* C16: when the factory fails (raises or returns an empty value) for an
\* existing entity that is not cached, the getter returns None and leaves
\* the cache as it was, and the next getter call for the identifier invokes
\* the factory again; if that attempt succeeds the instance is cached and
\* returned.
C16_FailureIsRetried ==
    \A c \in Getters : \A in \in Here(c) :
        LET r1 == Now(c, in)
        IN (/\ in.id # NoId
            /\ in.entity.exists
            /\ in.id \notin DOMAIN CacheOf(c, instance_cache, service_cache)
            /\ in.fo # "ok"
            /\ Count(r1.calls, c) = 1)
           => /\ r1.ret = None
              /\ CacheOf(c, r1.instance_cache, r1.service_cache)
                   = CacheOf(c, instance_cache, service_cache)
              /\ \A fo2 \in FactoryOutcomes :
                    LET r2 == After(r1, c, [in EXCEPT !.fo = fo2])
                    IN /\ Count(r2.calls, c) = 1
                       /\ fo2 = "ok" =>
                            /\ Truthy(r2.ret)
                            /\ CacheOf(c, r2.instance_cache, r2.service_cache)[in.id]
                                  = r2.ret

\* C17: every entry of the instance cache and of the service cache holds a
\* constructed instance, never None or another falsy value.
C17_OnlyInstancesCached ==
    /\ \A id \in DOMAIN instance_cache : Truthy(instance_cache[id])
    /\ \A id \in DOMAIN service_cache : Truthy(service_cache[id])

(***************************************************************************)
(* Properties of invalidation.                                             *)
(***************************************************************************)
InvalidationOps ==
    {"remove_adapter", "clear_all_adapters", "remove_service",
     "clear_all_services"}

\* d without the entry of k, every other entry as it is.
Without(d, k) == [x \in DOMAIN d \ {k} |-> d[x]]

\* C18: remove_adapter(id) deletes the instance cache entry of id when there
\* is one and leaves every other entry, and the service cache, as they are;
\* when id is not cached it changes nothing.  remove_service(id) does the
\* same on the service cache.
C18_RemoveIsExact ==
    [][/\ lastCall'.op = "remove_adapter"
          => /\ instance_cache' = Without(instance_cache, lastCall'.id)
             /\ lastCall'.id \notin DOMAIN instance_cache
                  => instance_cache' = instance_cache
             /\ service_cache' = service_cache
             /\ lastCall'.ret = None
       /\ lastCall'.op = "remove_service"
          => /\ service_cache' = Without(service_cache, lastCall'.id)
             /\ lastCall'.id \notin DOMAIN service_cache
                  => service_cache' = service_cache
             /\ instance_cache' = instance_cache
             /\ lastCall'.ret = None]_vars

\* remove_adapter(id) dropped the entry of id while other adapters and the
\* external service stayed cached.
C18_Witness ==
    /\ lastCall.op = "remove_adapter"
    /\ lastCall.id \in DOMAIN lastCall.dropped
    /\ Cardinality(DOMAIN instance_cache) >= 2
    /\ service_cache # EmptyDict

\* C19: remove_adapter, clear_all_adapters, remove_service and
\* clear_all_services invoke no factory, construct nothing and add no entry
\* to either cache.
C19_InvalidationNeverReconstructs ==
    [][lastCall'.op \in InvalidationOps
       => /\ DOMAIN instance_cache' \subseteq DOMAIN instance_cache
          /\ DOMAIN service_cache' \subseteq DOMAIN service_cache
          /\ \A k \in DOMAIN instance_cache' :
                instance_cache'[k] = instance_cache[k]
          /\ \A k \in DOMAIN service_cache' :
                service_cache'[k] = service_cache[k]
          /\ serial' = serial
          /\ lastCall'.calls = <<>>]_vars

\* clear_all_services emptied a service cache that held an instance, while
\* an adapter stayed cached.
C19_Witness ==
    /\ lastCall.op = "clear_all_services"
    /\ lastCall.dropped # EmptyDict
    /\ service_cache = EmptyDict
    /\ instance_cache # EmptyDict

\* A step of remove_adapter or clear_all_adapters that changes the cache.
Invalidates == \E t \in Threads : TRemoveDelete(t) \/ TClear(t)

\* C20: once an identifier has an entry in the instance cache or in the
\* service cache, no step of a getter removes or replaces the entry: it
\* stays mapped to the same instance until an invalidation.
C20_OnlyInvalidationDestroys ==
    [][~Invalidates
       => /\ \A id \in DOMAIN instance_cache :
                /\ id \in DOMAIN instance_cache'
                /\ instance_cache'[id] = instance_cache[id]
          /\ \A id \in DOMAIN service_cache :
                /\ id \in DOMAIN service_cache'
                /\ service_cache'[id] = service_cache[id]]_vars

(***************************************************************************)
(* Properties of the rule engine getter (Spec).                            *)
(***************************************************************************)
\* C21: get_rule_engine constructs a new engine on every call (two calls
\* never return the same instance), stores it in neither cache and leaves
\* both caches unchanged; a failing factory makes it return None, no
\* exception leaves it.
C21_RuleEngineIsFresh ==
    \A fo1 \in FactoryOutcomes : \A fo2 \in FactoryOutcomes :
        LET r1 == get_rule_engine(instance_cache, service_cache, serial, fo1)
            r2 == get_rule_engine(r1.instance_cache, r1.service_cache,
                                  r1.serial, fo2)
        IN /\ r1.instance_cache = instance_cache
           /\ r1.service_cache = service_cache
           /\ r2.instance_cache = instance_cache
           /\ r2.service_cache = service_cache
           /\ r1.ret.kind # "raise"
           /\ fo1 = "raise" => r1.ret = None
           /\ fo1 = "ok" => /\ Truthy(r1.ret)
                            /\ Count(r1.calls, "rule_engine") = 1
                            /\ r1.ret \notin Range(instance_cache)
                            /\ r1.ret \notin Range(service_cache)
           /\ (fo1 = "ok" /\ fo2 = "ok")
                => /\ r2.ret # r1.ret
                   /\ Count(r2.calls, "rule_engine") = 1

\* get_rule_engine returned an engine while both caches held entries.
C21_Witness ==
    /\ lastCall.op = "get_rule_engine"
    /\ Truthy(lastCall.ret)
    /\ instance_cache # EmptyDict
    /\ service_cache # EmptyDict

(***************************************************************************)
(* Properties of concurrent callers: atomicity, staleness, sharing         *)
(* (SpecThreads).                                                          *)
(***************************************************************************)
\* C22: no operation finds a key missing that passed its presence check,
\* whatever runs between the check and the read or delete: no caller ends
\* with a missing-key error.
C22_NoMissingKey ==
    \A t \in Threads : threads[t].ret # Raised("KeyError")

\* C23: once an entity has been edited and the invalidation of its adapter
\* has returned, no getter call issued afterwards returns an instance that
\* was constructed from the entity as it was before the edit, also when the
\* constructing call was in flight while the invalidation ran.
C23_NoStaleInstance ==
    \A t \in Threads : \A u \in Threads :
        (/\ t # u
         /\ threads[u].op = "get"
         /\ threads[u].pc = "done"
         /\ t \in threads[u].late
         /\ threads[t].stale = "settled"
         /\ Truthy(threads[u].ret))
        => threads[u].ret # threads[t].instance

\* C26: when two callers concurrently issue the first getter calls for two
\* different entities that name the same external service, not cached as
\* either call begins, and both construct their adapter, the service factory
\* is invoked exactly once and both adapters hold the same service instance.
C26_ConcurrentSharedDependency ==
    \A t \in Threads : \A u \in Threads :
        (/\ t # u
         /\ threads[t].pc = "done" /\ threads[u].pc = "done"
         /\ threads[t].op = "get" /\ threads[u].op = "get"
         /\ threads[t].id # threads[u].id
         /\ threads[t].fresh /\ threads[u].fresh
         /\ threads[t].cold /\ threads[u].cold
         /\ u \in threads[t].overlaps
         /\ threads[t].entity.exists /\ threads[u].entity.exists
         /\ threads[t].entity.external_service_id # NoId
         /\ threads[t].entity.external_service_id
              = threads[u].entity.external_service_id
         /\ Truthy(threads[t].ret) /\ Truthy(threads[u].ret))
        => /\ threads[t].ret.external_service = threads[u].ret.external_service
           /\ Count(threads[t].calls \o threads[u].calls, "external_service") = 1

(***************************************************************************)
(* Properties of the dependency on external services.                      *)
(***************************************************************************)
\* The cached adapters that were constructed with an external service.
Dependants(ic) ==
    {a \in DOMAIN ic : Truthy(ic[a]) /\ Truthy(ic[a].external_service)}

\* C24: in every reachable state, the cached adapter instances that name
\* the same external service were constructed with the same service
\* instance, and that instance is the one the service cache holds when it
\* has an entry for the service.
C24_OneInstancePerService ==
    \A a \in Dependants(instance_cache) :
        LET service == instance_cache[a].external_service
        IN /\ \A b \in Dependants(instance_cache) :
                 instance_cache[b].external_service.id = service.id
                 => instance_cache[b].external_service = service
           /\ service.id \in DOMAIN service_cache
                => service_cache[service.id] = service

\* C25: an entity without external_service_id is constructible.  For every
\* category, when the entity exists with a supported adapter type and what
\* its construction reads, names no external service, is not cached and its
\* factory succeeds, the getter invokes the factory once with no external
\* service, stores the instance in the instance cache and returns it.
C25_NoServiceIsConstructible ==
    \A c \in Categories : \A in \in Here(c) :
        (/\ Constructible(c, in, service_cache)
         /\ in.entity.external_service_id = NoId
         /\ in.id \notin DOMAIN instance_cache)
        => LET r == Now(c, in)
           IN /\ Truthy(r.ret)
              /\ r.ret.external_service = None
              /\ r.calls = <<c>>
              /\ in.id \in DOMAIN r.instance_cache
              /\ r.instance_cache[in.id] = r.ret

\* C27: on a cache miss, for each of the six categories, a getter whose
\* entity names an external service resolves it through get_external_service
\* before it invokes the adapter factory (constructing the service first
\* when it is not cached) and constructs the adapter with the resolved
\* service.
C27_ResolvesBeforeConstructing ==
    \A c \in Categories : \A in \in Here(c) : \A es \in ServiceEntities :
        LET call == [in EXCEPT !.es = es, !.so = "ok"]
            s == in.entity.external_service_id
            r == Now(c, call)
        IN (/\ in.id # NoId
            /\ in.entity.exists
            /\ in.id \notin DOMAIN instance_cache
            /\ s # NoId
            /\ es.adapter_type \in SupportedTypes("external_service")
            /\ Count(r.calls, c) = 1)
           => /\ s \in DOMAIN r.service_cache
              /\ s \notin DOMAIN service_cache
                   => r.calls = <<"external_service", c>>
              /\ Truthy(r.ret)
                   => r.ret.external_service = r.service_cache[s]

\* C28: a cache hit does no work beyond the repository lookup.  For every
\* category, when the instance cache holds an instance of the category's
\* port under the identifier and the repository returns an entity, the
\* getter returns the cached instance, invokes no factory (neither the
\* adapter's nor the service's, so get_external_service constructs nothing
\* and caches nothing) and leaves both caches as they were, whatever the
\* entity's adapter_type, config and external_service_id, whatever the
\* service repository holds and whatever the factories would answer.
C28_CacheHitDoesNoWork ==
    \A c \in Categories : \A in \in Here(c) :
        \A es \in ServiceEntities \cup {NoEntity} :
        \A so \in FactoryOutcomes : \A fo \in FactoryOutcomes :
        \A limits \in BOOLEAN :
            LET call == [in EXCEPT !.es = es, !.so = so, !.fo = fo,
                                   !.limits = limits]
                r == Now(c, call)
            IN (/\ in.id \in DOMAIN instance_cache
                /\ in.entity.exists
                /\ Truthy(instance_cache[in.id])
                /\ instance_cache[in.id].port = Port(c))
               => /\ r.ret = instance_cache[in.id]
                  /\ r.calls = <<>>
                  /\ r.instance_cache = instance_cache
                  /\ r.service_cache = service_cache
                  /\ r.serial = serial

\* A getter has just returned the cached instance although the repository
\* now gives the entity a type no branch handles and an external service
\* that is not in the service cache.
C28_Witness ==
    /\ lastCall.cat \in Categories
    /\ lastCall.entity.exists
    /\ lastCall.entity.adapter_type = OtherType
    /\ lastCall.entity.external_service_id # NoId
    /\ lastCall.entity.external_service_id \notin DOMAIN service_cache
    /\ Truthy(lastCall.ret)
    /\ lastCall.calls = <<>>
    /\ lastCall.id \in DOMAIN instance_cache
    /\ instance_cache[lastCall.id] = lastCall.ret

\* C29: the two caches are independent.  remove_adapter and
\* clear_all_adapters leave the service cache unchanged; remove_service and
\* clear_all_services leave the instance cache unchanged; and
\* get_external_service neither writes the instance cache nor reads it: it
\* returns, and leaves in the service cache, what it would with an empty
\* instance cache, also when an adapter is cached under the same identifier.
C29_CachesAreIndependent ==
    [][/\ lastCall'.op \in {"remove_adapter", "clear_all_adapters"}
          => service_cache' = service_cache
       /\ lastCall'.op \in {"remove_service", "clear_all_services"}
          => instance_cache' = instance_cache
       /\ lastCall'.op = "get_external_service"
          => LET alone == get_external_service(EmptyDict, service_cache,
                              serial, lastCall'.id, lastCall'.entity,
                              lastCall'.fo)
             IN /\ instance_cache' = instance_cache
                /\ lastCall'.ret = alone.ret
                /\ lastCall'.calls = alone.calls
                /\ service_cache' = alone.service_cache]_vars

\* get_external_service has just constructed and cached the service of an
\* identifier under which the instance cache holds an adapter.
C29_Witness ==
    /\ lastCall.op = "get_external_service"
    /\ lastCall.calls = <<"external_service">>
    /\ Truthy(lastCall.ret)
    /\ lastCall.id \in DOMAIN instance_cache
    /\ Truthy(instance_cache[lastCall.id])
    /\ lastCall.id \in DOMAIN service_cache
    /\ service_cache[lastCall.id] = lastCall.ret
    /\ service_cache[lastCall.id] # instance_cache[lastCall.id]

\* C30: no rollback of a resolved dependency.  When a getter call
\* constructs and caches the entity's external service and the adapter's
\* own construction then fails (an adapter_type no branch handles, or the
\* adapter factory raises), the call returns None, the service cache keeps
\* the new service, the instance cache gets no entry for the adapter, and
\* every later call of the getter for the same adapter and service invokes
\* no service factory, leaves the cached service in place and, where the
\* adapter is built with a service, builds it with the cached one.
C30_NoRollbackOfDependency ==
    \A c \in Categories : \A in \in Here(c) :
        LET r == Now(c, in)
            s == in.entity.external_service_id
        IN (/\ in.entity.exists
            /\ "external_service" \in Range(r.calls)
            /\ in.so = "ok"
            /\ \/ in.entity.adapter_type \notin SupportedTypes(c)
               \/ c \in Range(r.calls) /\ in.fo = "raise")
           => /\ r.ret = None
              /\ s \in DOMAIN r.service_cache
              /\ Truthy(r.service_cache[s])
              /\ s \notin DOMAIN service_cache
              /\ in.id \notin DOMAIN r.instance_cache
              /\ \A again \in Inputs(c, r.instance_cache, r.service_cache,
                                      r.serial, Ids, "any") :
                    LET q == Run(c, r.instance_cache, r.service_cache,
                                 r.serial, again)
                    IN (/\ again.id = in.id
                        /\ again.entity.exists
                        /\ again.entity.external_service_id = s)
                       => /\ "external_service" \notin Range(q.calls)
                          /\ s \in DOMAIN q.service_cache
                          /\ q.service_cache[s] = r.service_cache[s]
                          /\ (Truthy(q.ret)
                              /\ UsesFactory(c, again.entity.adapter_type))
                               => q.ret.external_service = r.service_cache[s]

\* A getter has just constructed the external service, its adapter factory
\* raised, and the service is cached while the adapter is not.
C30_Witness ==
    /\ lastCall.cat \in Categories
    /\ lastCall.calls = <<"external_service", lastCall.cat>>
    /\ lastCall.so = "ok"
    /\ lastCall.fo = "raise"
    /\ lastCall.ret = None
    /\ lastCall.entity.external_service_id \in DOMAIN service_cache
    /\ Truthy(service_cache[lastCall.entity.external_service_id])
    /\ lastCall.id \notin DOMAIN instance_cache

(***************************************************************************)
(* Resolution depth (Spec).                                                *)
(***************************************************************************)
\* C31: bounded resolution depth.  Every call of a single-entity getter
\* returns after at most one invocation of the external service factory and
\* at most one invocation of the adapter factory, the service's first; and
\* get_external_service invokes nothing but the service factory, at most
\* once, and constructs no adapter.
C31_BoundedResolutionDepth ==
    /\ \A c \in Categories : \A in \in Here(c) :
           LET r == Now(c, in)
           IN /\ Count(r.calls, "external_service") <= 1
              /\ Count(r.calls, c) <= 1
              /\ Range(r.calls) \subseteq {"external_service", c}
              /\ Len(r.calls) = 2 => r.calls = <<"external_service", c>>
    /\ \A in \in Here("external_service") :
           LET r == Now("external_service", in)
           IN /\ r.calls \in {<<>>, <<"external_service">>}
              /\ r.instance_cache = instance_cache

\* A getter has just constructed its external service and then its adapter:
\* one invocation of each factory.
C31_Witness ==
    /\ lastCall.cat \in Categories
    /\ lastCall.calls = <<"external_service", lastCall.cat>>
    /\ Truthy(lastCall.ret)
    /\ lastCall.id \in DOMAIN instance_cache
    /\ instance_cache[lastCall.id] = lastCall.ret

(***************************************************************************)
(* Progress of concurrent callers (SpecStalled).                           *)
(***************************************************************************)
\* Caller u is inside a factory invocation: the service factory's for the
\* external service its entity names, or the adapter factory's for its id.
InFactory(u) ==
    threads[u].op = "get" /\ threads[u].pc \in {"svc_construct", "construct"}

\* Caller t is in a getter call for another adapter than u's, one that does
\* not use the external service u is constructing.
Unrelated(t, u) ==
    /\ InFlight(t)
    /\ threads[t].op = "get"
    /\ ~(threads[t].cat = threads[u].cat /\ threads[t].id = threads[u].id)
    /\ threads[u].pc = "svc_construct"
          => LET entity == Lookup(RepoOf(threads[t].cat), threads[t].id)
             IN entity.exists
                => entity.external_service_id
                      # threads[u].entity.external_service_id

\* C32: a slow construction does not block unrelated requests.  While one
\* caller is inside a factory invocation, which may never return, a getter
\* call of a running caller for another identifier that does not depend on
\* the one under construction completes, on a cache hit and on a miss.
C32_SlowConstructionDoesNotBlock ==
    (InFactory(Slow) /\ Unrelated(Running, Slow)) ~> (threads[Running].pc = "done")

\* A getter call that began while the other caller's call was in flight has
\* constructed its adapter and returned it, and the other caller is still
\* inside its factory invocation.
C32_Witness ==
    /\ InFactory(Slow)
    /\ threads[Running].pc = "done"
    /\ threads[Running].op = "get"
    /\ Slow \in threads[Running].overlaps
    /\ threads[Running].id # threads[Slow].id
    /\ threads[Running].calls # <<>>
    /\ Truthy(threads[Running].ret)

(***************************************************************************)
(* The two batch getters (SpecBatch).                                      *)
(***************************************************************************)
\* C33: get_all_notifiers() is equivalent to get_notifiers applied to the
\* identifiers of all notifiers of the repository.  From the same caches,
\* with the same repositories and factory outcomes, both invoke the same
\* factories and end alike: the same instances in repository order (or the
\* same exception) and the same caches.  With an empty notifier repository
\* get_all_notifiers returns an empty list and changes nothing.
C33_AllIsBatchOfAll ==
    /\ \A b \in BatchInputs(instance_cache, service_cache, serial,
                            {NotifierOrder}) :
           RunBatch("get_all_notifiers", instance_cache, service_cache,
                    serial, b)
             = RunBatch("get_notifiers", instance_cache, service_cache,
                        serial, b)
    /\ get_all_notifiers(instance_cache, service_cache, serial, <<>>,
                         EmptyDict, ServiceRepo, <<>>, <<>>)
          = Out(ListOf(<<>>), instance_cache, service_cache, serial, <<>>)
    /\ get_notifiers(instance_cache, service_cache, serial, <<>>,
                     EmptyDict, ServiceRepo, <<>>, <<>>)
          = Out(ListOf(<<>>), instance_cache, service_cache, serial, <<>>)

\* get_all_notifiers has just returned two or more instances, in repository
\* order, all of them cached.
C33_Witness ==
    /\ lastCall.op = "get_all_notifiers"
    /\ lastCall.ret.kind = "list"
    /\ Len(lastCall.ret.items) >= 2
    /\ \A i \in DOMAIN lastCall.ret.items :
          \E id \in DOMAIN instance_cache :
              instance_cache[id] = lastCall.ret.items[i]
    /\ \A i, j \in DOMAIN lastCall.ret.items :
          i < j => \E a, b \in DOMAIN instance_cache :
                      /\ a < b
                      /\ instance_cache[a] = lastCall.ret.items[i]
                      /\ instance_cache[b] = lastCall.ret.items[j]

(***************************************************************************)
(* The repository lookup and the cache (Spec).                             *)
(***************************************************************************)
\* C34: the repository lookup precedes the cache.  When the repository no
\* longer holds the entity of an identifier whose instance is still in the
\* instance cache, the getter returns None, as it would with empty caches,
\* invokes no factory, and leaves the cached entry (and both caches) as
\* they were: the entry goes only with an explicit invalidation.
C34_LookupPrecedesCache ==
    \A c \in Categories : \A in \in Here(c) :
        (/\ in.id \in DOMAIN instance_cache
         /\ ~in.entity.exists)
        => LET r == Now(c, in)
           IN /\ r.ret = None
              /\ r = [Run(c, EmptyDict, EmptyDict, serial, in)
                         EXCEPT !.instance_cache = instance_cache,
                                !.service_cache = service_cache]
              /\ r.calls = <<>>
              /\ r.instance_cache = instance_cache
              /\ r.service_cache = service_cache

\* A getter has just returned None for an identifier the repository does
\* not hold, while the instance cache still holds an instance of the
\* getter's port under it.
C34_Witness ==
    /\ lastCall.cat \in Categories
    /\ ~lastCall.entity.exists
    /\ lastCall.ret = None
    /\ lastCall.id \in DOMAIN instance_cache
    /\ Truthy(instance_cache[lastCall.id])
    /\ instance_cache[lastCall.id].port = Port(lastCall.cat)

(***************************************************************************)
(* Properties of run_async_func and of the pyasic controller (SpecPyASIC). *)
(***************************************************************************)
\* C35: run_async_func propagates any exception raised by the coroutine to
\* its caller as that same exception and runs the coroutine at most once,
\* with no event loop running and with one running, also when the
\* coroutine raises RuntimeError.
C35_AsyncPropagatesSameException ==
    lastCall.op = "run_async_func"
    => /\ lastCall.runs <= 1
       /\ lastCall.co.kind = "raise" => lastCall.ret = lastCall.co

\* The controllers the methods may be called on.
AllControllers == [password : Passwords, miner : {"None", "AnyMiner"}]

\* C36: commands reach the device.  On a controller built by the factory,
\* when pyasic.get_miner(ip) succeeds, start_miner and stop_miner issue
\* resume_mining and stop_mining and return True when the request succeeds,
\* and get_miner_status returns ON, OFF or UNKNOWN as is_mining is True,
\* False or None.
C36_CommandsReachDevice ==
    (lastCall.op = "create" /\ lastCall.ret.kind = "return")
    => \A op \in {"start_miner", "stop_miner", "get_miner_status"} :
       \A in \in DeviceInputs(op) :
          LET d == RunController(op, controller, in)
          IN in.lookup = Returned("AnyMiner")
             => /\ (op = "start_miner" /\ in.answer = Returned("True"))
                   => /\ d.commands = <<"resume_mining">>
                      /\ d.ret = Returned("True")
                /\ (op = "stop_miner" /\ in.answer = Returned("True"))
                   => /\ d.commands = <<"stop_mining">>
                      /\ d.ret = Returned("True")
                /\ (op = "get_miner_status" /\ in.answer.kind = "return")
                   => /\ d.commands = <<"is_mining">>
                      /\ d.ret = Returned(CASE in.answer.value = "True" -> "ON"
                                            [] in.answer.value = "False" -> "OFF"
                                            [] OTHER -> "UNKNOWN")

\* C37: the controller degrades without raising when it holds no miner
\* instance.  For every controller and every call after whose _get_miner
\* the miner instance is unset, whatever the device would answer,
\* get_miner_hashrate and get_miner_power return None, get_miner_status
\* returns UNKNOWN, start_miner and stop_miner return False, and no command
\* is sent to the device.
C37_DegradesWithoutMiner ==
    \A ctl \in AllControllers \cup {controller} :
    \A op \in ControllerOps : \A in \in DeviceInputs(op) :
        get_miner(ctl, in).controller.miner = "None"
        => LET d == RunController(op, ctl, in)
           IN /\ d.commands = <<>>
              /\ d.controller.miner = "None"
              /\ d.ret = Returned(CASE op = "get_miner_status" -> "UNKNOWN"
                                    [] op \in {"start_miner", "stop_miner"} -> "False"
                                    [] OTHER -> "None")

\* start_miner has just returned False on a controller without a miner
\* instance, sending nothing, although the device would have answered.
C37_Witness ==
    /\ lastCall.op = "start_miner"
    /\ controller.miner = "None"
    /\ lastCall.in.lookup = Returned("AnyMiner")
    /\ lastCall.in.answer = Returned("True")
    /\ lastCall.ret = Returned("False")
    /\ lastCall.commands = <<>>

(***************************************************************************)
(* Properties of the notifier test endpoint (SpecApi).                     *)
(***************************************************************************)
\* C38: POST /notifiers/{notifier_id}/test returns the success body only
\* when the registry's get_notifier returned an instance and
\* send_notification completed without raising; it responds 404 when
\* get_notifier returns None, and 500 for every other failure, an exception
\* raised by get_notifier itself included.
C38_TestEndpointStatus ==
    \A in \in Here("notifier") : \A sent \in SendOutcomes :
        LET notifier_port == Now("notifier", in).ret
            response == test_notifier(notifier_port, sent)
        IN /\ response.status \in {"200", "404", "500"}
           /\ response.status = "200"
                <=> (Truthy(notifier_port) /\ sent = "ok")
           /\ response.status = "404" <=> notifier_port = None
           /\ notifier_port.kind = "raise" => response.status = "500"
           /\ (Truthy(notifier_port) /\ sent = "raise")
                => response.status = "500"

\* The endpoint has just answered 500 because get_notifier raised: the
\* notifier names an external service that the repository does not hold.
C38_Witness ==
    /\ lastCall.op = "test_notifier"
    /\ lastCall.notifier_port.kind = "raise"
    /\ lastCall.ret = Response("500")
    /\ lastCall.entity.exists
    /\ lastCall.entity.external_service_id # NoId
    /\ ~lastCall.es.exists

(***************************************************************************)
(* Properties of the energy adapter maps.                                  *)
(***************************************************************************)
\* C39: the energy adapter maps are total and consistent over their enums.
\* The key set of each map keyed by energy source type (forecast provider
\* types, configs and classes; energy monitor types and classes) equals the
\* set of EnergySourceType members, and every EnergyMonitorAdapter listed
\* for a source type has an entry in ENERGY_MONITOR_CONFIG_TYPE_MAP and in
\* ENERGY_MONITOR_TYPE_EXTERNAL_SERVICE_MAP.
C39_EnergyMapsTotal ==
    lastCall.op = "import"
    => /\ lastCall.ret.kind = "module"
       /\ \A n \in {"ENERGY_SOURCE_TYPE_FORECAST_PROVIDER_TYPE_MAP",
                     "ENERGY_SOURCE_TYPE_FORECAST_PROVIDER_CONFIG_MAP",
                     "ENERGY_SOURCE_TYPE_FORECAST_PROVIDER_CLASS_MAP",
                     "ENERGY_SOURCE_TYPE_ENERGY_MONITOR_MAP",
                     "ENERGY_SOURCE_TYPE_ENERGY_MONITOR_CLASS_MAP"} :
             DOMAIN lastCall.ret.names[n] = EnergySourceType
       /\ LET monitors ==
                 lastCall.ret.names["ENERGY_SOURCE_TYPE_ENERGY_MONITOR_MAP"]
          IN \A t \in DOMAIN monitors : \A a \in Range(monitors[t]) :
                /\ a \in DOMAIN lastCall.ret.names[
                                    "ENERGY_MONITOR_CONFIG_TYPE_MAP"]
                /\ a \in DOMAIN lastCall.ret.names[
                                    "ENERGY_MONITOR_TYPE_EXTERNAL_SERVICE_MAP"]

====
